---------------------------- MODULE Spec2Model ----------------------------
(***************************************************************************)
(* whisperwire: the compliance evaluation engine of app/src-tauri.         *)
(*                                                                         *)
(*   rules.rs      the rule catalog (RuleSet::get_default_rules)           *)
(*   evaluator.rs  ComplianceEvaluator: ConversationState, evaluate,       *)
(*                 check_rule, check_metadata_rule, reset                  *)
(*   llm.rs        LlmClient: check_connection, try_pull_model, evaluate,  *)
(*                 set_model                                               *)
(*   lib.rs        the tauri commands: evaluate_transcript,                *)
(*                 check_llm_status, set_llm_model, reset_evaluator        *)
(*                                                                         *)
(* A transcript is held as the sequence of its utterances; its text is the *)
(* utterances joined by single spaces.  Utterances are ASCII strings, so   *)
(* byte offsets and character offsets coincide and to_lowercase keeps the  *)
(* length.  Offsets are 0-based as in Rust; SubSeq is 1-based.             *)
(***************************************************************************)
EXTENDS Integers, Sequences, FiniteSets, Bags, TLC

(***************************************************************************)
(* Option<T>::None                                                         *)
(***************************************************************************)
None == [none |-> TRUE]
Some(v) == [some |-> v]
IsSome(o) == "some" \in DOMAIN o

(***************************************************************************)
(* Strings: str::to_lowercase, str::find, str::trim and slicing.           *)
(***************************************************************************)
UpperChars == "ABCDEFGHIJKLMNOPQRSTUVWXYZ"
LowerChars == "abcdefghijklmnopqrstuvwxyz"

CharAt(s, i) == SubSeq(s, i + 1, i + 1)

char_to_lowercase(c) ==
    LET ks == {k \in 1..Len(UpperChars) : SubSeq(UpperChars, k, k) = c}
    IN  IF ks = {} THEN c
        ELSE LET k == CHOOSE k \in ks : TRUE IN SubSeq(LowerChars, k, k)

RECURSIVE to_lowercase(_)
to_lowercase(s) ==
    IF Len(s) = 0 THEN ""
    ELSE char_to_lowercase(SubSeq(s, 1, 1)) \o to_lowercase(SubSeq(s, 2, Len(s)))

is_whitespace(c) == c \in {" ", "\t", "\n", "\r"}

\* haystack.find(needle): Some(offset of the leftmost occurrence), or None.
str_find(hay, needle) ==
    LET hits == {i \in 0..(Len(hay) - Len(needle)) :
                    SubSeq(hay, i + 1, i + Len(needle)) = needle}
    IN  IF hits = {} THEN None
        ELSE Some(CHOOSE i \in hits : \A j \in hits : i <= j)

\* s[from..to]
Slice(s, from, to) == SubSeq(s, from + 1, to)

RECURSIVE trim_start(_)
trim_start(s) ==
    IF Len(s) > 0 /\ is_whitespace(SubSeq(s, 1, 1))
    THEN trim_start(SubSeq(s, 2, Len(s))) ELSE s

RECURSIVE trim_end(_)
trim_end(s) ==
    IF Len(s) > 0 /\ is_whitespace(SubSeq(s, Len(s), Len(s)))
    THEN trim_end(SubSeq(s, 1, Len(s) - 1)) ELSE s

trim(s) == trim_end(trim_start(s))

Min(a, b) == IF a <= b THEN a ELSE b

(***************************************************************************)
(* Regular expressions of the catalog, as syntax trees, matched the way    *)
(* the regex crate matches them: the leftmost match, and at that position  *)
(* the first alternative that lets the whole pattern match (greedy ?, \s+  *)
(* and \s*, lazy .*?).  MatchEnds gives the end offsets of the matches of  *)
(* r that start at offset i, in order of preference.                       *)
(***************************************************************************)
Lit(s)  == [k |-> "lit", s |-> s]
Alt(rs) == [k |-> "alt", rs |-> rs]
Cat(rs) == [k |-> "cat", rs |-> rs]
Opt(r)  == [k |-> "opt", r |-> r]
Ws1     == [k |-> "ws1"]      \* \s+
Ws0     == [k |-> "ws0"]      \* \s*
LazyAny == [k |-> "lazy"]     \* .*?

RECURSIVE WsRun(_, _)
WsRun(s, i) ==
    IF i < Len(s) /\ is_whitespace(CharAt(s, i)) THEN 1 + WsRun(s, i + 1) ELSE 0

RECURSIVE LineRun(_, _)
LineRun(s, i) ==
    IF i < Len(s) /\ CharAt(s, i) # "\n" THEN 1 + LineRun(s, i + 1) ELSE 0

RECURSIVE MatchEnds(_, _, _)
RECURSIVE AltEnds(_, _, _)
RECURSIVE CatEnds(_, _, _)
RECURSIVE EachEnd(_, _, _)

MatchEnds(r, s, i) ==
    CASE r.k = "lit"  -> IF i + Len(r.s) <= Len(s) /\ Slice(s, i, i + Len(r.s)) = r.s
                         THEN <<i + Len(r.s)>> ELSE <<>>
      [] r.k = "alt"  -> AltEnds(r.rs, s, i)
      [] r.k = "cat"  -> CatEnds(r.rs, s, <<i>>)
      [] r.k = "opt"  -> MatchEnds(r.r, s, i) \o <<i>>
      [] r.k = "ws1"  -> LET n == WsRun(s, i) IN [j \in 1..n |-> i + n + 1 - j]
      [] r.k = "ws0"  -> LET n == WsRun(s, i) IN [j \in 1..(n + 1) |-> i + n + 1 - j]
      [] r.k = "lazy" -> LET n == LineRun(s, i) IN [j \in 1..(n + 1) |-> i + j - 1]

AltEnds(rs, s, i) ==
    IF rs = <<>> THEN <<>>
    ELSE MatchEnds(Head(rs), s, i) \o AltEnds(Tail(rs), s, i)

\* the ends of r started at each offset of starts, in order
EachEnd(r, s, starts) ==
    IF starts = <<>> THEN <<>>
    ELSE MatchEnds(r, s, Head(starts)) \o EachEnd(r, s, Tail(starts))

CatEnds(rs, s, starts) ==
    IF rs = <<>> THEN starts
    ELSE CatEnds(Tail(rs), s, EachEnd(Head(rs), s, starts))

\* Regex::find: the leftmost match as Some([start, end]), or None.
regex_find(re, s) ==
    LET hits == {i \in 0..Len(s) : MatchEnds(re, s, i) # <<>>}
    IN  IF hits = {} THEN None
        ELSE LET i == CHOOSE i \in hits : \A j \in hits : i <= j
             IN  Some([start |-> i, end |-> Head(MatchEnds(re, s, i))])


(***************************************************************************)
(* rules.rs: the rule catalog.  A rule keeps the fields the evaluator      *)
(* reads; recommended_fix is cut to its first words.  A pattern is kept as *)
(* its source text with its syntax tree.                                   *)
(***************************************************************************)
RECURSIVE Spaced(_)
\* w1\s+w2\s+...\s+wn
Spaced(ws) ==
    IF Len(ws) = 1 THEN <<Lit(Head(ws))>>
    ELSE <<Lit(Head(ws)), Ws1>> \o Spaced(Tail(ws))

Words(ws) == Cat(Spaced(ws))

Pattern(src, re) == [src |-> src, re |-> re]

Rule(id, title, severity, triggers, regex_patterns, requires_metadata, recommended_fix) ==
    [id |-> id, title |-> title, severity |-> severity, triggers |-> triggers,
     regex_patterns |-> regex_patterns, requires_metadata |-> requires_metadata,
     recommended_fix |-> recommended_fix, enabled |-> TRUE]

DNC001_Patterns == <<
    Pattern("(?i)(don'?t|do\\s*not|stop|quit|cease)\\s+(call|contact|ring|phone)",
        Cat(<<Alt(<<Cat(<<Lit("don"), Opt(Lit("'")), Lit("t")>>),
                    Cat(<<Lit("do"), Ws0, Lit("not")>>),
                    Lit("stop"), Lit("quit"), Lit("cease")>>),
              Ws1,
              Alt(<<Lit("call"), Lit("contact"), Lit("ring"), Lit("phone")>>)>>)),
    Pattern("(?i)(remove|take)\\s+(me|my\\s+number)\\s+(from|off)",
        Cat(<<Alt(<<Lit("remove"), Lit("take")>>), Ws1,
              Alt(<<Lit("me"), Words(<<"my", "number">>)>>), Ws1,
              Alt(<<Lit("from"), Lit("off")>>)>>)),
    Pattern("(?i)(put|add)\\s+(me|my\\s+number)\\s+(on|to)\\s+(the\\s+)?(do\\s*not\\s*call|dnc)",
        Cat(<<Alt(<<Lit("put"), Lit("add")>>), Ws1,
              Alt(<<Lit("me"), Words(<<"my", "number">>)>>), Ws1,
              Alt(<<Lit("on"), Lit("to")>>), Ws1,
              Opt(Cat(<<Lit("the"), Ws1>>)),
              Alt(<<Cat(<<Lit("do"), Ws0, Lit("not"), Ws0, Lit("call")>>),
                    Lit("dnc")>>)>>)) >>

DNC002_Patterns == <<
    Pattern("(?i)(before\\s+you\\s+go|just\\s+one\\s+more|let\\s+me\\s+just)",
        Alt(<<Words(<<"before", "you", "go">>), Words(<<"just", "one", "more">>),
              Words(<<"let", "me", "just">>)>>)),
    Pattern("(?i)(are\\s+you\\s+sure|but\\s+wait|hear\\s+me\\s+out)",
        Alt(<<Words(<<"are", "you", "sure">>), Words(<<"but", "wait">>),
              Words(<<"hear", "me", "out">>)>>)) >>

DISC001_Patterns == <<
    Pattern("(?i)(calling\\s+(from|on\\s+behalf\\s+of)|this\\s+is|my\\s+name\\s+is.*?(with|from))",
        Alt(<<Cat(<<Lit("calling"), Ws1,
                    Alt(<<Lit("from"), Words(<<"on", "behalf", "of">>)>>)>>),
              Words(<<"this", "is">>),
              Cat(<<Words(<<"my", "name", "is">>), LazyAny,
                    Alt(<<Lit("with"), Lit("from")>>)>>)>>)) >>

DISC002_Patterns == <<
    Pattern("(?i)(sales|marketing|promotion|offer|special\\s+deal|opportunity)",
        Alt(<<Lit("sales"), Lit("marketing"), Lit("promotion"), Lit("offer"),
              Words(<<"special", "deal">>), Lit("opportunity")>>)) >>

CONS001_Patterns == <<
    Pattern("(?i)(withdraw|revoke|take\\s+back|cancel)\\s+(my\\s+)?(consent|permission|authorization)",
        Cat(<<Alt(<<Lit("withdraw"), Lit("revoke"), Words(<<"take", "back">>),
                    Lit("cancel")>>), Ws1,
              Opt(Cat(<<Lit("my"), Ws1>>)),
              Alt(<<Lit("consent"), Lit("permission"), Lit("authorization")>>)>>)),
    Pattern("(?i)(opt|unsubscribe)\\s+(me\\s+)?out",
        Cat(<<Alt(<<Lit("opt"), Lit("unsubscribe")>>), Ws1,
              Opt(Cat(<<Lit("me"), Ws1>>)), Lit("out")>>)),
    Pattern("(?i)(never|didn'?t)\\s+(agree|consent|authorize)",
        Cat(<<Alt(<<Lit("never"), Cat(<<Lit("didn"), Opt(Lit("'")), Lit("t")>>)>>),
              Ws1,
              Alt(<<Lit("agree"), Lit("consent"), Lit("authorize")>>)>>)) >>

IDENT001_Patterns == <<
    Pattern("(?i)(call\\s+(us\\s+)?back\\s+at|reach\\s+us\\s+at|our\\s+number\\s+is|contact\\s+us\\s+at)",
        Alt(<<Cat(<<Lit("call"), Ws1, Opt(Cat(<<Lit("us"), Ws1>>)),
                    Lit("back"), Ws1, Lit("at")>>),
              Words(<<"reach", "us", "at">>), Words(<<"our", "number", "is">>),
              Words(<<"contact", "us", "at">>)>>)) >>

REC001_Patterns == <<
    Pattern("(?i)(this\\s+call\\s+(is|may\\s+be)\\s+(being\\s+)?recorded|call\\s+recording|for\\s+quality\\s+(and\\s+training\\s+)?purposes)",
        Alt(<<Cat(<<Words(<<"this", "call">>), Ws1,
                    Alt(<<Lit("is"), Words(<<"may", "be">>)>>), Ws1,
                    Opt(Cat(<<Lit("being"), Ws1>>)), Lit("recorded")>>),
              Words(<<"call", "recording">>),
              Cat(<<Words(<<"for", "quality">>), Ws1,
                    Opt(Cat(<<Words(<<"and", "training">>), Ws1>>)),
                    Lit("purposes")>>)>>)) >>

get_default_rules == <<
    Rule("TIME-001", "Calling Time Violation", "High", <<>>, <<>>, TRUE,
         "Verify time zone before calling."),
    Rule("DNC-001", "Customer Requested No Further Calls", "High",
         <<"don't call me", "do not call me", "stop calling me",
           "remove me from your list", "take me off your list",
           "put me on do not call", "add me to do not call", "no more calls",
           "never call again", "stop contacting me">>,
         DNC001_Patterns, FALSE,
         "Understood, I'll add you to our Do Not Call list effective immediately."),
    Rule("DNC-002", "Agent Continued After DNC Request", "High",
         <<"before you go", "just one more thing", "let me just tell you",
           "you might want to hear", "are you sure", "but wait">>,
         DNC002_Patterns, FALSE,
         "Do not continue selling."),
    Rule("DNC-003", "National DNC List - No Consent Evidence", "High", <<>>, <<>>, TRUE,
         "If calling a DNC-listed number, ensure you have documented consent."),
    Rule("DISC-001", "Missing Seller Identity Disclosure", "Medium", <<>>,
         DISC001_Patterns, FALSE,
         "Hi, my name is [Name] calling from [Company Name]."),
    Rule("DISC-002", "Missing Sales Call Nature Disclosure", "Medium", <<>>,
         DISC002_Patterns, FALSE,
         "I'm calling today with a special offer for you..."),
    Rule("DISC-003", "Missing Product/Service Description", "Low", <<>>, <<>>, FALSE,
         "The reason for my call is to tell you about our [product/service]..."),
    Rule("CONS-001", "Consent Revocation Detected", "High",
         <<"i withdraw my consent", "i revoke my consent", "i take back my consent",
           "i no longer consent", "i didn't agree to this", "i never agreed",
           "i want to opt out", "opt me out", "unsubscribe me">>,
         CONS001_Patterns, FALSE,
         "I understand you'd like to revoke your consent."),
    Rule("IDENT-001", "Missing Callback Number", "Low", <<>>,
         IDENT001_Patterns, FALSE,
         "If you have any questions, you can reach us at [phone number]."),
    Rule("PREC-001", "Prerecorded Voice Without Consent", "High", <<>>, <<>>, TRUE,
         "Ensure written consent is obtained and documented."),
    Rule("REC-001", "Missing Recording Disclosure", "Medium", <<>>,
         REC001_Patterns, FALSE,
         "This call may be recorded for quality and training purposes.") >>

\* RuleSet::load_default().rules
rules == get_default_rules

RuleIds == {rules[k].id : k \in DOMAIN rules}

\* the catalog with the trigger phrases of the rule of the id replaced
with_triggers(rs, id, triggers) ==
    [k \in DOMAIN rs |-> IF rs[k].id = id THEN [rs[k] EXCEPT !.triggers = triggers]
                         ELSE rs[k]]

\* a catalog whose disclosure rules have trigger phrases: the default rules
\* with a phrase for DISC-001 and for DISC-002
disclosure_trigger_rules ==
    with_triggers(with_triggers(get_default_rules,
        "DISC-001", <<"this is">>),
        "DISC-002", <<"special offer">>)

\* the catalog with an empty recommended_fix for the rule of the id
without_fix(rs, id) ==
    [k \in DOMAIN rs |-> IF rs[k].id = id THEN [rs[k] EXCEPT !.recommended_fix = ""]
                         ELSE rs[k]]

\* the catalogs evaluate is called with, by name
Catalogs ==
    [default |-> rules, disclosure_triggers |-> disclosure_trigger_rules,
     no_fix |-> without_fix(get_default_rules, "DNC-003")]

(***************************************************************************)
(* The inputs of the model.  An utterance is one of a few texts, each      *)
(* chosen for what it matches in the catalog:                              *)
(*   "Don't call me"        DNC-001, trigger 1 (after lower-casing)        *)
(*   "quit ringing us"      DNC-001, pattern 1 only                        *)
(*   "But wait"             DNC-002, trigger 6                             *)
(*   "hear me out"          DNC-002, pattern 2 only                        *)
(*   "opt me out"           CONS-001, trigger 8                            *)
(*   "this is Acme"         DISC-001's pattern                             *)
(*   "a special offer"      DISC-002's pattern                             *)
(*   "reach us at 555"      IDENT-001's pattern                            *)
(*   "call recording"       REC-001's pattern                              *)
(*   Filler                 87 characters that match nothing: with a       *)
(*                          second utterance the transcript is around the  *)
(*                          100 characters evaluate compares its length to *)
(* No trigger and no pattern matches across the space between two of them. *)
(***************************************************************************)
Filler ==
    "Good morning, I hope you are doing well today and thank you for picking up the phone ok"

\* what a customer or an agent says about further calls and consent
RequestUtterances ==
    {"Don't call me", "quit ringing us", "But wait", "hear me out", "opt me out"}

\* what an agent says to disclose who calls and why
DisclosureUtterances ==
    {"this is Acme", "a special offer", "reach us at 555", "call recording", Filler}

\* the utterances of the calls evaluated with one of the catalogs: one with a
\* later and one with the first trigger phrase of DNC-001, one that only a
\* pattern of DNC-001 matches, and disclosures
CatalogUtterances ==
    {"no more calls", "Don't call me", "quit ringing us", "this is Acme", "a special offer"}

\* an utterance with a character of two bytes (the n with tilde of "senor",
\* 0xC3 0xB1 in UTF-8), written as its bytes: "{" stands for the first byte
\* and "}" for the continuation byte.  It matches nothing, and the character
\* begins 28 bytes into it.
Senor == "I already asked you twice se{}or"

\* the bytes that continue a character (0x80 to 0xBF)
ContinuationBytes == {"}"}

\* requests about calls, revocations of consent (the second of them matched
\* by a pattern of CONS-001 only), an objection and a disclosure
FlagUtterances ==
    {"Don't call me", "quit ringing us", "But wait", "I revoke my consent",
     "cancel my permission", "this is Acme"}

Utterances ==
    RequestUtterances \cup DisclosureUtterances \cup CatalogUtterances \cup {Senor}
        \cup FlagUtterances

\* the most utterances of a transcript
MaxUtterances == 2

TranscriptsOf(U) == UNION {[1..n -> U] : n \in 0..MaxUtterances}

CallTypes == {"outbound_sales", "inbound_support"}

\* CallMetadata: the fields the evaluator reads.
CallMetadata ==
    [is_dnc_listed : BOOLEAN, has_prior_consent : BOOLEAN,
     is_prerecorded : BOOLEAN, call_type : CallTypes]

(***************************************************************************)
(* The text of a transcript and searches in it.  The searches of one       *)
(* utterance are computed once, by str_find and regex_find on its          *)
(* lower-cased text (f @@ <<>> is f, held as a table).                     *)
(***************************************************************************)
RECURSIVE Text(_)
Text(t) ==
    IF t = <<>> THEN ""
    ELSE IF Len(t) = 1 THEN t[1]
    ELSE t[1] \o " " \o Text(Tail(t))

RECURSIVE Offset(_, _)
\* the offset of utterance i in Text(t)
Offset(t, i) == IF i = 1 THEN 0 ELSE Offset(t, i - 1) + Len(t[i - 1]) + 1

\* transcript.len()
transcript_len(t) == IF t = <<>> THEN 0 ELSE Offset(t, Len(t)) + Len(t[Len(t)])

LowerOf == [u \in Utterances |-> to_lowercase(u)] @@ <<>>

\* transcript.to_lowercase()
transcript_to_lowercase(t) == [i \in DOMAIN t |-> LowerOf[t[i]]]

Range(f) == {f[i] : i \in DOMAIN f}

AllTriggers ==
    UNION {Range(r.triggers) : r \in UNION {Range(Catalogs[c]) : c \in DOMAIN Catalogs}}

AllPatterns == UNION {Range(r.regex_patterns) : r \in Range(rules)}

\* the pattern of a source text
PatternOf(src) == CHOOSE p \in AllPatterns : p.src = src

TriggerFind ==
    [lu \in Range(LowerOf) |->
        [tr \in AllTriggers |-> str_find(lu, to_lowercase(tr))] @@ <<>>] @@ <<>>

PatternFind ==
    [lu \in Range(LowerOf) |->
        [src \in {p.src : p \in AllPatterns} |->
            regex_find(PatternOf(src).re, lu)] @@ <<>>] @@ <<>>

MinOf(S) == CHOOSE i \in S : \A j \in S : i <= j

\* the first utterance with a hit, given the hits of each utterance
first_hit(hits) == MinOf({i \in DOMAIN hits : IsSome(hits[i])})

\* the offset in the transcript of the leftmost hit, or None
leftmost_offset(tl, hits) ==
    IF \A i \in DOMAIN hits : ~IsSome(hits[i]) THEN None
    ELSE Some(Offset(tl, first_hit(hits)) + hits[first_hit(hits)].some)

\* the offsets in the transcript of the leftmost match, or None
leftmost_match(tl, hits) ==
    IF \A i \in DOMAIN hits : ~IsSome(hits[i]) THEN None
    ELSE Some([start |-> Offset(tl, first_hit(hits)) + hits[first_hit(hits)].some.start,
               end |-> Offset(tl, first_hit(hits)) + hits[first_hit(hits)].some.end])

\* transcript_lower.find(&trigger_lower)
find_trigger(tl, trigger) ==
    leftmost_offset(tl, [i \in DOMAIN tl |-> TriggerFind[tl[i]][trigger]])

\* Regex::new(pattern), then re.find(transcript_lower)
find_pattern(tl, pattern) ==
    leftmost_match(tl, [i \in DOMAIN tl |-> PatternFind[tl[i]][pattern.src]])

(***************************************************************************)
(* evaluator.rs: ConversationState and ComplianceEvaluator.                *)
(***************************************************************************)
DisclosureState_default ==
    [seller_identified |-> FALSE, sales_purpose_stated |-> FALSE,
     product_described |-> FALSE, callback_provided |-> FALSE,
     recording_disclosed |-> FALSE]

ConversationState_default ==
    [dnc_requested |-> FALSE, consent_revoked |-> FALSE,
     disclosures |-> DisclosureState_default, seen_alerts |-> EmptyBag]

\* seen_alerts: Vec<String> is only pushed to and asked what it contains, so it
\* is held as the bag of its elements.
\* Vec::contains
contains(v, x) == BagIn(x, v)

\* Vec::push
push(v, x) == v (+) SetToBag({x})

severity_to_string(severity) ==
    CASE severity = "High" -> "high"
      [] severity = "Medium" -> "medium"
      [] severity = "Low" -> "low"

\* Alert { .. }: the uuid and why_it_matters are left out
Alert(rule, confidence, quote, start_char, end_char) ==
    [rule_id |-> rule.id, title |-> rule.title,
     severity |-> severity_to_string(rule.severity), confidence |-> confidence,
     evidence |-> [quote |-> quote, start_char |-> start_char, end_char |-> end_char],
     agent_fix_suggestion |-> rule.recommended_fix]

SuggestedLine(text, confidence) == [text |-> text, confidence |-> confidence]

\* check_metadata_rule without the look at has_prior_consent (a variant the
\* properties on the metadata rules are tested against)
check_metadata_rule_ignoring_consent(md, rule) ==
    IF rule.id = "DNC-003" /\ md.is_dnc_listed
    THEN Some(Alert(rule, 95, "Number is on National DNC Registry (metadata flag)", 0, 0))
    ELSE IF rule.id = "PREC-001" /\ md.is_prerecorded
    THEN Some(Alert(rule, 95,
             "Using prerecorded/artificial voice without consent (metadata flag)", 0, 0))
    ELSE None

\* the hour of the call by the clock of the consumer, for the metadata that
\* carry a call_start_time
call_time_local(md) ==
    CASE md.call_start_time = "2024-01-15T07:30:00Z" -> 7
      [] md.call_start_time = "2024-01-15T12:00:00Z" -> 12
      [] md.call_start_time = "2024-01-15T22:15:00Z" -> 22

\* check_metadata_rule with a TIME-001 that looks at the hour of the call (a
\* variant the properties on the calling-time rule are tested against)
check_metadata_rule_with_hours(md, rule) ==
    IF rule.id = "TIME-001"
    THEN IF "call_start_time" \in DOMAIN md /\ call_time_local(md) \notin 8..20
         THEN Some(Alert(rule, 95, "Call placed outside 8am-9pm (metadata)", 0, 0))
         ELSE None
    ELSE IF rule.id = "DNC-003" /\ md.is_dnc_listed /\ ~md.has_prior_consent
    THEN Some(Alert(rule, 95, "Number is on National DNC Registry (metadata flag)", 0, 0))
    ELSE IF rule.id = "PREC-001" /\ md.is_prerecorded /\ ~md.has_prior_consent
    THEN Some(Alert(rule, 95,
             "Using prerecorded/artificial voice without consent (metadata flag)", 0, 0))
    ELSE None

\* fn check_metadata_rule
check_metadata_rule(md, rule) ==
    CASE rule.id = "TIME-001" -> None
      [] rule.id = "DNC-003" ->
            IF md.is_dnc_listed /\ ~md.has_prior_consent
            THEN Some(Alert(rule, 95,
                     "Number is on National DNC Registry (metadata flag)", 0, 0))
            ELSE None
      [] rule.id = "PREC-001" ->
            IF md.is_prerecorded /\ ~md.has_prior_consent
            THEN Some(Alert(rule, 95,
                     "Using prerecorded/artificial voice without consent (metadata flag)", 0, 0))
            ELSE None
      [] OTHER -> None

\* the least of a set of indices, or 0 for none
first_or_0(js) == IF js = {} THEN 0 ELSE MinOf(js)

\* first_trigger that takes the trigger found furthest to the left in the
\* transcript (a variant the properties on the order of the trigger phrases
\* are tested against)
leftmost_trigger(tl, rule) ==
    first_or_0({j \in DOMAIN rule.triggers :
                   /\ IsSome(find_trigger(tl, rule.triggers[j]))
                   /\ \A k \in DOMAIN rule.triggers :
                          IsSome(find_trigger(tl, rule.triggers[k])) =>
                              find_trigger(tl, rule.triggers[j]).some
                                  <= find_trigger(tl, rule.triggers[k]).some})

\* the first trigger, in declared order, found in the transcript, or 0
first_trigger(tl, rule) ==
    first_or_0({j \in DOMAIN rule.triggers : IsSome(find_trigger(tl, rule.triggers[j]))})

\* the first pattern, in declared order, that matches the transcript, or 0
first_pattern(tl, rule) ==
    first_or_0({j \in DOMAIN rule.regex_patterns :
                   IsSome(find_pattern(tl, rule.regex_patterns[j]))})

\* note_dnc_request that takes a match of DNC-002 for a request as well (a
\* variant the properties on a DNC-002 match before a request are tested
\* against)
note_dnc_mention(rule, st) ==
    IF rule.id \in {"DNC-001", "DNC-002"} THEN [st EXCEPT !.dnc_requested = TRUE] ELSE st

\* note_dnc_request that notes the request at a match of DNC-002 too (a
\* variant the properties on the flags of the state are tested against)
note_any_dnc_rule(rule, st) ==
    IF rule.id \in {"DNC-001", "DNC-002"} THEN [st EXCEPT !.dnc_requested = TRUE] ELSE st

\* if rule.id == "DNC-001" { state.dnc_requested = true; }
note_dnc_request(rule, st) ==
    IF rule.id = "DNC-001" THEN [st EXCEPT !.dnc_requested = TRUE] ELSE st

\* dnc_gate_closed without the gate (a variant the properties on DNC-002 are
\* tested against)
dnc_gate_open(rule, st) == FALSE

\* if rule.id == "DNC-002" && !state.dnc_requested { return Ok(None); }
dnc_gate_closed(rule, st) == rule.id = "DNC-002" /\ ~st.dnc_requested

\* if rule.id == "CONS-001" { state.consent_revoked = true; }
note_consent_revoked(rule, st) ==
    IF rule.id = "CONS-001" THEN [st EXCEPT !.consent_revoked = TRUE] ELSE st

\* let quote = transcript[from..context_end].trim().to_string()
quote_of(transcript, from, end, context) ==
    trim(Slice(Text(transcript), from, Min(end + context, transcript_len(transcript))))

\* trigger_alert with the confidence of a pattern match (a variant the
\* properties on trigger phrases are tested against)
trigger_alert_as_pattern(transcript, rule, st, trigger, pos) ==
    IF rule.id = "DNC-002" /\ ~st.dnc_requested THEN [state |-> st, alert |-> None]
    ELSE [state |-> note_consent_revoked(rule, st),
          alert |-> Some(Alert(rule, 85,
                        quote_of(transcript, pos, pos + Len(trigger), 30),
                        pos, pos + Len(trigger)))]

\* the trigger loop from the DNC-002 gate on; st has the request noted
trigger_alert(transcript, rule, st, trigger, pos) ==
    IF dnc_gate_closed(rule, st) THEN [state |-> st, alert |-> None]
    ELSE [state |-> note_consent_revoked(rule, st),
          alert |-> Some(Alert(rule, 90,
                        quote_of(transcript, pos, pos + Len(trigger), 30),
                        pos, pos + Len(trigger)))]

\* the body of the trigger loop for the trigger found
on_trigger(transcript, rule, st, trigger, pos) ==
    trigger_alert(transcript, rule, note_dnc_request(rule, st), trigger, pos)

DisclosureRuleIds == {"DISC-001", "DISC-002", "DISC-003", "IDENT-001", "REC-001"}

\* note_disclosure that notes nothing (a variant the properties on the
\* disclosure flags are tested against)
forget_disclosure(rule, st) == st

\* match rule.id.as_str() { "DISC-001" => { state.disclosures.seller_identified = true; .. } .. }
note_disclosure(rule, st) ==
    CASE rule.id = "DISC-001" -> [st EXCEPT !.disclosures.seller_identified = TRUE]
      [] rule.id = "DISC-002" -> [st EXCEPT !.disclosures.sales_purpose_stated = TRUE]
      [] rule.id = "DISC-003" -> [st EXCEPT !.disclosures.product_described = TRUE]
      [] rule.id = "IDENT-001" -> [st EXCEPT !.disclosures.callback_provided = TRUE]
      [] rule.id = "REC-001" -> [st EXCEPT !.disclosures.recording_disclosed = TRUE]
      [] OTHER -> st

\* pattern_alert without the branch of the disclosure rules (a variant the
\* properties on the disclosure rules are tested against)
pattern_alert_always(transcript, rule, st, m) ==
    [state |-> st,
     alert |-> Some(Alert(rule, 85, quote_of(transcript, m.start, m.end, 20),
                          m.start, m.end))]

\* the pattern loop from the DNC-002 gate on; st has the request noted
pattern_alert(transcript, rule, st, m) ==
    IF dnc_gate_closed(rule, st) THEN [state |-> st, alert |-> None]
    ELSE IF rule.id \in DisclosureRuleIds
    THEN [state |-> note_disclosure(rule, note_consent_revoked(rule, st)),
          alert |-> None]
    ELSE [state |-> note_consent_revoked(rule, st),
          alert |-> Some(Alert(rule, 85, quote_of(transcript, m.start, m.end, 20),
                               m.start, m.end))]

\* the body of the pattern loop for the match found
on_pattern(transcript, rule, st, m) ==
    pattern_alert(transcript, rule, note_dnc_request(rule, st), m)

\* for pattern in &rule.regex_patterns: q is the first pattern that matches, or 0
pattern_loop(transcript, tl, rule, st, q) ==
    IF q # 0
    THEN on_pattern(transcript, rule, st, find_pattern(tl, rule.regex_patterns[q]).some)
    ELSE [state |-> st, alert |-> None]

\* for trigger in &rule.triggers: j is the first trigger found, or 0
trigger_loop(transcript, tl, rule, st, j) ==
    IF j # 0
    THEN on_trigger(transcript, rule, st, rule.triggers[j],
                    find_trigger(tl, rule.triggers[j]).some)
    ELSE pattern_loop(transcript, tl, rule, st, first_pattern(tl, rule))

\* check_rule: the state as it leaves it, and the alert or None
check_rule(md, transcript, tl, rule, st) ==
    IF rule.requires_metadata
    THEN [state |-> st, alert |-> check_metadata_rule(md, rule)]
    ELSE trigger_loop(transcript, tl, rule, st, first_trigger(tl, rule))

\* rules.rules.iter().filter(|r| r.enabled).collect()
enabled_rules(rs) == SelectSeq(rs, LAMBDA r : r.enabled)

\* already_alerted without the look into seen_alerts (a variant the
\* properties on repeated alerts are tested against)
never_alerted(st, rule) == FALSE

\* if state.seen_alerts.contains(&rule.id) { continue; }
already_alerted(st, rule) == contains(st.seen_alerts, rule.id)

\* mark_alerted that remembers nothing (a variant the properties on the second
\* call of a scenario are tested against)
mark_nothing(st, alert) == st

\* state.seen_alerts.push(alert.rule_id.clone())
mark_alerted(st, alert) == [st EXCEPT !.seen_alerts = push(@, alert.rule_id)]

\* if !rule.recommended_fix.is_empty() { suggestions.push(..) }
suggest_fix(suggestions, rule) ==
    IF rule.recommended_fix # ""
    THEN Append(suggestions, SuggestedLine(rule.recommended_fix, 85))
    ELSE suggestions

\* collect with the id of every rule checked pushed to seen_alerts, alert or
\* not (a variant the properties on seen_alerts are tested against)
collect_marking_misses(acc, rule, r) ==
    IF IsSome(r.alert)
    THEN [state |-> mark_alerted(r.state, r.alert.some),
          alerts |-> Append(acc.alerts, r.alert.some),
          suggestions |-> suggest_fix(acc.suggestions, rule)]
    ELSE [acc EXCEPT !.state = [r.state EXCEPT !.seen_alerts = push(@, rule.id)]]

\* if let Some(alert) = .. { seen_alerts.push, suggestions.push, alerts.push }
collect(acc, rule, r) ==
    IF IsSome(r.alert)
    THEN [state |-> mark_alerted(r.state, r.alert.some),
          alerts |-> Append(acc.alerts, r.alert.some),
          suggestions |-> suggest_fix(acc.suggestions, rule)]
    ELSE [acc EXCEPT !.state = r.state]

\* the body of the rule loop
process_rule(md, transcript, tl, rule, acc) ==
    IF already_alerted(acc.state, rule) THEN acc
    ELSE collect(acc, rule, check_rule(md, transcript, tl, rule, acc.state))

RECURSIVE process_rules(_, _, _, _, _, _)
\* for rule in enabled_rules { .. }, from rule k on
process_rules(rs, k, md, transcript, tl, acc) ==
    IF k > Len(rs) THEN acc
    ELSE process_rules(rs, k + 1, md, transcript, tl,
                       process_rule(md, transcript, tl, rs[k], acc))

IdentifySuggestion ==
    "Identify yourself and your company: 'Hi, my name is [Name] calling from [Company Name].'"

PurposeSuggestion ==
    "Disclose the sales purpose: 'I'm calling today with a special offer for you.'"

\* if !state.disclosures.seller_identified { suggestions.push(..) }
suggest_identify(st, suggestions) ==
    IF ~st.disclosures.seller_identified
    THEN Append(suggestions, SuggestedLine(IdentifySuggestion, 80))
    ELSE suggestions

\* suggest_purpose that holds the purpose for stated once the product was
\* described (a variant the properties on what the output depends on are
\* tested against)
suggest_purpose_unless_described(st, suggestions) ==
    IF ~st.disclosures.sales_purpose_stated /\ ~st.disclosures.product_described
    THEN Append(suggestions, SuggestedLine(PurposeSuggestion, 80))
    ELSE suggestions

\* if !state.disclosures.sales_purpose_stated { suggestions.push(..) }
suggest_purpose(st, suggestions) ==
    IF ~st.disclosures.sales_purpose_stated
    THEN Append(suggestions, SuggestedLine(PurposeSuggestion, 80))
    ELSE suggestions

\* contextual_suggestions that takes a transcript of 100 characters for a long
\* one (a variant the properties on the length of the transcript are tested
\* against)
contextual_from_100(md, transcript, st, suggestions) ==
    IF md.call_type = "outbound_sales" /\ transcript_len(transcript) >= 100
    THEN suggest_purpose(st, suggest_identify(st, suggestions))
    ELSE suggestions

\* contextual_suggestions with the generic suggestions put before the ones of
\* the rules (a variant the properties on the order of the suggestions are
\* tested against)
contextual_first(md, transcript, st, suggestions) ==
    IF md.call_type = "outbound_sales" /\ transcript_len(transcript) > 100
    THEN suggest_purpose(st, suggest_identify(st, <<>>)) \o suggestions
    ELSE suggestions

\* Add contextual suggestions for missing disclosures
contextual_suggestions(md, transcript, st, suggestions) ==
    IF md.call_type = "outbound_sales" /\ transcript_len(transcript) > 100
    THEN suggest_purpose(st, suggest_identify(st, suggestions))
    ELSE suggestions

\* Vec::truncate
truncate(v, n) == IF Len(v) > n THEN SubSeq(v, 1, n) ELSE v

\* evaluate after the rule loop: the state it leaves and Ok(EvaluationOutput)
evaluation_output(md, transcript, acc) ==
    [state |-> acc.state,
     ok |-> TRUE,
     output |-> [alerts |-> acc.alerts,
                 suggested_next_lines |->
                     truncate(contextual_suggestions(md, transcript, acc.state,
                                                     acc.suggestions), 3)]]

\* ComplianceEvaluator::evaluate
evaluate(st, md, transcript, rs) ==
    evaluation_output(md, transcript,
        process_rules(enabled_rules(rs), 1, md, transcript,
                      transcript_to_lowercase(transcript),
                      [state |-> st, alerts |-> <<>>, suggestions |-> <<>>]))

\* str::is_char_boundary
is_char_boundary(s, i) ==
    \/ i = 0
    \/ i = Len(s)
    \/ i < Len(s) /\ CharAt(s, i) \notin ContinuationBytes

\* &s[from..to] panics: from is after to, or one of them is not at the
\* boundary of a character
slice_panics(s, from, to) ==
    from > to \/ ~is_char_boundary(s, from) \/ ~is_char_boundary(s, to)

\* let quote = transcript[from..context_end].trim().to_string() panics
quote_panics(transcript, from, end, context) ==
    slice_panics(Text(transcript), from, Min(end + context, transcript_len(transcript)))

\* the quote of the first pattern that matches panics; q is that pattern, or 0
pattern_panics(transcript, tl, rule, q) ==
    /\ q # 0
    /\ quote_panics(transcript, find_pattern(tl, rule.regex_patterns[q]).some.start,
                    find_pattern(tl, rule.regex_patterns[q]).some.end, 20)

\* the quote of the first trigger found panics; j is that trigger, or 0
trigger_panics(transcript, tl, rule, j) ==
    IF j # 0
    THEN quote_panics(transcript, find_trigger(tl, rule.triggers[j]).some,
                      find_trigger(tl, rule.triggers[j]).some + Len(rule.triggers[j]), 30)
    ELSE pattern_panics(transcript, tl, rule, first_pattern(tl, rule))

\* check_rule panics
check_rule_panics(transcript, tl, rule) ==
    /\ ~rule.requires_metadata
    /\ trigger_panics(transcript, tl, rule, first_trigger(tl, rule))

\* the rules of the loop of evaluate, by index, at which it panics on the
\* state st: a rule is in seen_alerts when its turn comes if and only if it
\* is there when the loop begins
panicking_rules(st, transcript, rs) ==
    {k \in DOMAIN rs : /\ ~already_alerted(st, rs[k])
                       /\ check_rule_panics(transcript, transcript_to_lowercase(transcript),
                                            rs[k])}

\* ComplianceEvaluator::evaluate panics
evaluate_panics(st, transcript, rs) == panicking_rules(st, transcript, enabled_rules(rs)) # {}

\* the state evaluate leaves behind the Mutex when it panics: that of the
\* loop over the rules before the first at which it panics
state_at_panic(st, md, transcript, rs) ==
    process_rules(SubSeq(enabled_rules(rs), 1,
                         MinOf(panicking_rules(st, transcript, enabled_rules(rs))) - 1),
                  1, md, transcript, transcript_to_lowercase(transcript),
                  [state |-> st, alerts |-> <<>>, suggestions |-> <<>>]).state

\* reset that leaves seen_alerts as it is (a variant the properties on reset
\* are tested against)
reset_flags_only(st) == [ConversationState_default EXCEPT !.seen_alerts = st.seen_alerts]

\* reset that leaves dnc_requested as it is (a variant the properties on a
\* repeated reset are tested against)
reset_keeping_requests(st) ==
    [ConversationState_default EXCEPT !.dnc_requested = st.dnc_requested]

\* ComplianceEvaluator::reset: the state it leaves
reset(st) == ConversationState_default

(***************************************************************************)
(* The state: AppState (lib.rs) and what the frontend has in hand.         *)
(*   state        ComplianceEvaluator.state                                *)
(*   llm          the LlmClient: model and enabled                         *)
(*   llm_enabled  AppState.llm_enabled                                     *)
(*   ret          the command just run, with its arguments and what it     *)
(*                returned, until the frontend takes the response          *)
(*   emitted      history: the bag of the rule ids of the alerts returned  *)
(*                since the evaluator state was last reset                 *)
(*   disclosed    history: the disclosure rules with a pattern that        *)
(*                matched a transcript the ComplianceEvaluator processed   *)
(*                since its state was last reset                           *)
(*   spoken       the transcript of the call so far, where the caller      *)
(*                of the commands accumulates it                           *)
(*   db           Database: the calls table, as the status of each call id *)
(*   heard        history: for each call id, the bag of the rule ids of    *)
(*                the alerts returned to the evaluate_transcript calls     *)
(*                made with that call id in the metadata, since the        *)
(*                session of the call was started if it was                *)
(*   tasks        the calls in progress when the runtime runs several at   *)
(*                once: for each task the call it is in, with its          *)
(*                arguments, its locals and where it stands                *)
(*   locks        evaluator.state's Mutex (the task that holds it, or 0)   *)
(*                and AppState.llm's RwLock (the tasks that hold it for    *)
(*                reading, and the task that holds it for writing, or 0)   *)
(*   probed       history: whether the last check_connection that returned *)
(*                returned Ok(true) (false before the first), and the      *)
(*                model of the LlmClient at the last check_connection that *)
(*                returned Ok(true) since the last set_model, or "none"    *)
(* ret, emitted, disclosed and heard follow the commands that are run one  *)
(* at a time; the tasks keep what they return in tasks.                    *)
(***************************************************************************)
VARIABLES state, llm, llm_enabled, ret, emitted, disclosed, spoken, db, heard,
          tasks, locks, probed

vars == <<state, llm, llm_enabled, ret, emitted, disclosed, spoken, db, heard,
          tasks, locks, probed>>

\* the most calls in progress at once
MaxTasks == 2

Tasks == 1..MaxTasks

\* a task that is in no call
Idle == [pc |-> "idle"]

\* the call ids of the sessions
CallIds == {"call-1", "call-2"}

\* the most alerts the history of one call id counts before its calls stop
MaxHeard == 2

NoCmd == [cmd |-> "none"]

\* the most alerts the history counts before evaluate calls stop
MaxEmitted == 6

RECURSIVE RuleIdBag(_)
\* the bag of the rule ids of a list of alerts
RuleIdBag(alerts) ==
    IF alerts = <<>> THEN EmptyBag
    ELSE SetToBag({Head(alerts).rule_id}) (+) RuleIdBag(Tail(alerts))

RuleIdsOf(alerts) == {alerts[i].rule_id : i \in DOMAIN alerts}

RuleOf(id) == rules[CHOOSE k \in DOMAIN rules : rules[k].id = id]

\* a trigger phrase of the rule occurs in the transcript
has_trigger(id, transcript) ==
    first_trigger(transcript_to_lowercase(transcript), RuleOf(id)) # 0

\* a pattern of the rule matches the transcript
has_match(id, transcript) ==
    first_pattern(transcript_to_lowercase(transcript), RuleOf(id)) # 0

\* LlmClient::new(None, None), ComplianceEvaluator::new(), llm_enabled: Mutex::new(false)
Init ==
    /\ state = ConversationState_default
    /\ llm = [model |-> "llama3.2:1b", enabled |-> FALSE]
    /\ llm_enabled = FALSE
    /\ ret = NoCmd
    /\ emitted = EmptyBag
    /\ disclosed = {}
    /\ spoken = <<>>
    /\ db = [id \in CallIds |-> "none"]
    /\ heard = [id \in CallIds |-> EmptyBag]
    /\ tasks = [t \in Tasks |-> Idle]
    /\ locks = [state_mutex |-> 0, llm_readers |-> {}, llm_writer |-> 0, db_mutex |-> 0,
                poisoned |-> {}]
    /\ probed = [ok |-> FALSE, model |-> "none"]

\* the frontend takes the response of the command
Respond ==
    /\ ret # NoCmd
    /\ ret' = NoCmd
    /\ UNCHANGED <<state, llm, llm_enabled, emitted, disclosed, spoken, db, heard,
                   tasks, locks, probed>>

\* state.evaluator.evaluate(&metadata, &transcript, &state.rules)
Evaluate(md, transcript) ==
    /\ ret = NoCmd
    /\ BagCardinality(emitted) < MaxEmitted
    /\ \E r \in {evaluate(state, md, transcript, rules)} :
           /\ state' = r.state
           /\ ret' = [cmd |-> "evaluate", metadata |-> md, transcript |-> transcript,
                      ok |-> r.ok, output |-> r.output]
           /\ emitted' = emitted (+) RuleIdBag(r.output.alerts)
    /\ disclosed' = disclosed \cup {id \in DisclosureRuleIds : has_match(id, transcript)}
    /\ UNCHANGED <<llm, llm_enabled, spoken, db, heard, tasks, locks, probed>>

\* state.evaluator.reset()
Reset ==
    /\ ret = NoCmd
    /\ state' = reset(state)
    /\ ret' = [cmd |-> "reset"]
    /\ emitted' = EmptyBag
    /\ disclosed' = {}
    /\ UNCHANGED <<llm, llm_enabled, spoken, db, heard, tasks, locks, probed>>

\* the metadata of the calls evaluated with one of the catalogs
CatalogMetadata ==
    {[is_dnc_listed |-> l, has_prior_consent |-> FALSE, is_prerecorded |-> FALSE,
      call_type |-> "outbound_sales"] : l \in BOOLEAN}

\* state.evaluator.evaluate(&metadata, &transcript, rules), with the catalog
\* of the name c
EvaluateIn(c, md, transcript) ==
    /\ ret = NoCmd
    /\ BagCardinality(emitted) < MaxEmitted
    /\ \E r \in {evaluate(state, md, transcript, Catalogs[c])} :
           /\ state' = r.state
           /\ ret' = [cmd |-> "evaluate_in", catalog |-> c, metadata |-> md,
                      transcript |-> transcript, ok |-> r.ok, output |-> r.output]
           /\ emitted' = emitted (+) RuleIdBag(r.output.alerts)
    /\ disclosed' = disclosed \cup {id \in DisclosureRuleIds : has_match(id, transcript)}
    /\ UNCHANGED <<llm, llm_enabled, spoken, db, heard, tasks, locks, probed>>

NextCatalogs ==
    \/ \E c \in {"default", "disclosure_triggers"}, md \in CatalogMetadata,
          transcript \in TranscriptsOf(CatalogUtterances) : EvaluateIn(c, md, transcript)
    \/ Reset
    \/ Respond

\* the ComplianceEvaluator with the default catalog and with a catalog whose
\* disclosure rules have trigger phrases
SpecCatalogs == Init /\ [][NextCatalogs]_vars

\* the utterances of the calls whose suggestions are looked at: a request, a
\* revocation, a disclosure of the seller, and the filler that makes a
\* transcript of 98, 100 or 101 characters with them
SuggestionUtterances == {"Don't call me", "opt me out", "this is Acme", Filler}

NextSuggestions ==
    \/ \E c \in {"default", "no_fix"}, md \in CallMetadata,
          transcript \in TranscriptsOf(SuggestionUtterances) : EvaluateIn(c, md, transcript)
    \/ Reset
    \/ Respond

\* the ComplianceEvaluator on calls long and short, with the default catalog
\* and with a catalog one rule of which has no recommended_fix
SpecSuggestions == Init /\ [][NextSuggestions]_vars

\* pub call_start_time: String: before 8am, at noon and after 9pm
CallStartTimes ==
    {"2024-01-15T07:30:00Z", "2024-01-15T12:00:00Z", "2024-01-15T22:15:00Z"}

\* pub caller_timezone: Option<String>
CallerTimezones == {None, Some("America/New_York"), Some("Pacific/Honolulu")}

\* the metadata of the calls with a time and a timezone
TimedMetadata ==
    [is_dnc_listed : BOOLEAN, has_prior_consent : BOOLEAN, is_prerecorded : {FALSE},
     call_type : {"outbound_sales"}, call_start_time : CallStartTimes,
     caller_timezone : CallerTimezones]

NextTimes ==
    \/ \E md \in TimedMetadata, transcript \in TranscriptsOf({"Don't call me"}) :
          EvaluateIn("default", md, transcript)
    \/ Reset
    \/ Respond

\* the ComplianceEvaluator on calls at several hours, to consumers in several
\* timezones
SpecTimes == Init /\ [][NextTimes]_vars

\* a request, a revocation, a disclosure, and the filler that makes a long
\* transcript with them
VariantUtterances == {"Don't call me", "I revoke my consent", "this is Acme", Filler}

NextVariants ==
    \/ \E md \in CatalogMetadata, transcript \in TranscriptsOf(VariantUtterances) :
          Evaluate(md, transcript)
    \/ Reset
    \/ Respond

\* the ComplianceEvaluator on the calls whose output is compared with the
\* output from other states
SpecVariants == Init /\ [][NextVariants]_vars

NextFlags ==
    \/ \E md \in CallMetadata, transcript \in TranscriptsOf(FlagUtterances) :
          Evaluate(md, transcript)
    \/ Reset
    \/ Respond

\* the ComplianceEvaluator on transcripts that set the flags of the
\* ConversationState
SpecFlags == Init /\ [][NextFlags]_vars

NextRequests ==
    \/ \E md \in CallMetadata, transcript \in TranscriptsOf(RequestUtterances) :
          Evaluate(md, transcript)
    \/ Reset
    \/ Respond

\* the ComplianceEvaluator on transcripts of requests about calls and consent
SpecRequests == Init /\ [][NextRequests]_vars

NextDisclosures ==
    \/ \E md \in CallMetadata, transcript \in TranscriptsOf(DisclosureUtterances) :
          Evaluate(md, transcript)
    \/ Reset
    \/ Respond

\* the ComplianceEvaluator on transcripts of disclosures
SpecDisclosures == Init /\ [][NextDisclosures]_vars

(***************************************************************************)
(* llm.rs: the LlmClient and what the provider (Ollama) answers.           *)
(***************************************************************************)
\* Result<T, String>; the text of an error is left out
Ok(v) == [ok |-> TRUE, value |-> v]
Err == [ok |-> FALSE]

\* Result::unwrap_or
unwrap_or(r, default) == IF r.ok THEN r.value ELSE default

\* the models set_llm_model is called with
Models == {"llama3.2:1b", "mistral"}

\* the models the provider may list
ProviderModels == {"llama3.2:3b", "mistral:7b"}

\* the answers to GET /api/tags, with the answer to POST /api/pull that
\* follows when the model is not listed
TagsReplies ==
    {[kind |-> "send_error"], [kind |-> "bad_status"], [kind |-> "no_list"]}
    \cup {[kind |-> "models", models |-> ms, pull |-> p] :
             ms \in SUBSET ProviderModels, p \in {"ok", "send_error", "bad_status"}}

\* self.model.split(':').next().unwrap_or(&self.model)
model_family(model) ==
    IF IsSome(str_find(model, ":")) THEN Slice(model, 0, str_find(model, ":").some)
    ELSE model

\* str::starts_with
starts_with(s, prefix) ==
    Len(prefix) <= Len(s) /\ Slice(s, 0, Len(prefix)) = prefix

\* models.iter().any(|m| m.name.starts_with(..))
model_available(self, models) ==
    \E m \in models : starts_with(m, model_family(self.model))

\* LlmClient::try_pull_model: the client as it leaves it, and the result
try_pull_model(self, pull) ==
    IF pull = "ok"
    THEN [client |-> [self EXCEPT !.enabled = TRUE], result |-> Ok(TRUE)]
    ELSE [client |-> self, result |-> Err]

\* check_connection that reports an answer without a list of models as a
\* success and leaves enabled as it is (a variant the properties on the two
\* availability flags are tested against)
check_connection_not_enabling(self, tags) ==
    CASE tags.kind = "send_error" -> [client |-> self, result |-> Err]
      [] tags.kind = "bad_status" -> [client |-> self, result |-> Err]
      [] tags.kind = "no_list" -> [client |-> self, result |-> Ok(TRUE)]
      [] tags.kind = "models" ->
            IF model_available(self, tags.models)
            THEN [client |-> [self EXCEPT !.enabled = TRUE], result |-> Ok(TRUE)]
            ELSE try_pull_model(self, tags.pull)

\* LlmClient::check_connection: the client as it leaves it, and the result
check_connection(self, tags) ==
    CASE tags.kind = "send_error" -> [client |-> self, result |-> Err]
      [] tags.kind = "bad_status" -> [client |-> self, result |-> Err]
      [] tags.kind = "no_list" ->
            [client |-> [self EXCEPT !.enabled = TRUE], result |-> Ok(TRUE)]
      [] tags.kind = "models" ->
            IF model_available(self, tags.models)
            THEN [client |-> [self EXCEPT !.enabled = TRUE], result |-> Ok(TRUE)]
            ELSE try_pull_model(self, tags.pull)

\* set_model that leaves enabled as it is (a variant the properties on the
\* model of the requests are tested against)
set_model_keeping_enabled(self, model) == [self EXCEPT !.model = model]

\* LlmClient::set_model
set_model(self, model) == [model |-> model, enabled |-> FALSE]

\* the history of the probes after a set_model
forget_probe(p) == [p EXCEPT !.model = "none"]

\* the history of the probes after a check_connection that returned r
note_probe(p, r) ==
    [ok |-> unwrap_or(r.result, FALSE),
     model |-> IF unwrap_or(r.result, FALSE) THEN r.client.model ELSE p.model]

\* the rule ids of the alerts of a provider
LlmRuleIds == {"DNC-001"}

\* the most alerts and the most suggestions of a provider's answer
MaxLlmAlerts == 1
MaxLlmSuggestions == 4

\* LlmAlert; why_it_matters is left out
LlmAlert(rule_id) ==
    [rule_id |-> rule_id, title |-> "Customer requested no further calls",
     severity |-> "high", confidence |-> 92,
     evidence |-> [quote |-> "exact quote from transcript", start_char |-> 0, end_char |-> 50],
     agent_fix_suggestion |-> "what agent should say"]

LlmSuggestion == [text |-> "compliant response suggestion", confidence |-> 88]

\* LlmResponse
LlmResponses ==
    [alerts : UNION {[1..n -> {LlmAlert(id) : id \in LlmRuleIds}] : n \in 0..MaxLlmAlerts},
     suggested_next_lines : {[i \in 1..n |-> LlmSuggestion] : n \in 0..MaxLlmSuggestions}]

\* the answers to POST /api/generate: no answer, a timeout, a status that is
\* not a success, a body that is no OllamaGenerateResponse, a response text
\* that is no LlmResponse, or an LlmResponse
GenerateReplies ==
    {[kind |-> k] : k \in {"send_error", "timeout", "bad_status", "bad_body", "bad_json"}}
    \cup {[kind |-> "ok", response |-> r] : r \in LlmResponses}

\* no request was sent
NoRequest == [kind |-> "none"]

\* the largest u8
U8Max == 255

\* the numbers a provider may write as the confidence of an alert
RawConfidences == {-1, 0, 92, 100, 101, 255, 256}

\* response texts that are JSON of the shape of an LlmResponse, with one alert
\* whose confidence is the number n
ResponseTexts ==
    {[alerts |-> <<[rule_id |-> "DNC-001", confidence |-> n]>>] : n \in RawConfidences}

\* the answers to POST /api/generate with such a response text
TextReplies == {[kind |-> "text", text |-> x] : x \in ResponseTexts}

\* the number is a u8
is_u8(n) == 0 <= n /\ n <= U8Max

\* serde_json::from_str::<LlmResponse>(&ollama_response.response): confidence
\* is a u8, and a number that is none is an error
from_str(text) ==
    IF \A i \in DOMAIN text.alerts : is_u8(text.alerts[i].confidence)
    THEN Ok([alerts |-> [i \in DOMAIN text.alerts |->
                            [LlmAlert(text.alerts[i].rule_id)
                                EXCEPT !.confidence = text.alerts[i].confidence]],
             suggested_next_lines |-> <<>>])
    ELSE Err

\* RuleSet::to_yaml: the text of the enabled rules, by their ids
to_yaml(rs) == [i \in DOMAIN enabled_rules(rs) |-> enabled_rules(rs)[i].id]

\* LlmClient::generate_system_prompt: the text around the rules
generate_system_prompt(rules_yaml) ==
    <<"You are a TCPA compliance evaluator for live call center calls.",
      "RULES TO EVALUATE:", rules_yaml, "Analyze the transcript now:">>

\* the user_prompt of LlmClient::evaluate
user_prompt(call_metadata, transcript) ==
    <<"CALL METADATA:", call_metadata, "TRANSCRIPT:", transcript,
      "Analyze and return JSON:">>

\* request_body with the limit of the answer's length under the name
\* max_tokens (a variant the properties on the generation request are
\* tested against)
request_body_max_tokens(self, call_metadata, transcript, rules_yaml) ==
    [model |-> self.model,
     prompt |-> user_prompt(call_metadata, transcript),
     system |-> generate_system_prompt(rules_yaml),
     stream |-> FALSE,
     format |-> "json",
     options |-> [temperature |-> "0.1", top_p |-> "0.9", max_tokens |-> 2048]]

\* let request_body = serde_json::json!({ .. }); a JSON object is a record,
\* a number with a fraction is the text it is written as
request_body(self, call_metadata, transcript, rules_yaml) ==
    [model |-> self.model,
     prompt |-> user_prompt(call_metadata, transcript),
     system |-> generate_system_prompt(rules_yaml),
     stream |-> FALSE,
     format |-> "json",
     options |-> [temperature |-> "0.1", top_p |-> "0.9", num_predict |-> 2048]]

\* LlmClient::evaluate; an answer "ok" stands for a response text that parses
\* to the LlmResponse it holds
LlmClient_evaluate(self, reply) ==
    IF ~self.enabled THEN Err
    ELSE IF reply.kind = "ok" THEN Ok(reply.response)
    ELSE IF reply.kind = "text" THEN from_str(reply.text)
    ELSE Err

(***************************************************************************)
(* lib.rs: the commands.                                                   *)
(***************************************************************************)
\* llm_result.alerts.into_iter().map(|a| Alert { .. }).collect()
to_alerts(llm_alerts) ==
    [i \in DOMAIN llm_alerts |->
        [rule_id |-> llm_alerts[i].rule_id, title |-> llm_alerts[i].title,
         severity |-> llm_alerts[i].severity, confidence |-> llm_alerts[i].confidence,
         evidence |-> [quote |-> llm_alerts[i].evidence.quote,
                       start_char |-> llm_alerts[i].evidence.start_char,
                       end_char |-> llm_alerts[i].evidence.end_char],
         agent_fix_suggestion |-> llm_alerts[i].agent_fix_suggestion]]

\* llm_result.suggested_next_lines.into_iter().map(|s| SuggestedLine { .. }).collect()
to_suggested_lines(llm_suggestions) ==
    [i \in DOMAIN llm_suggestions |->
        SuggestedLine(llm_suggestions[i].text, llm_suggestions[i].confidence)]

\* a result with the evaluator that produced it
by_path(r, path) ==
    [state |-> r.state, ok |-> r.ok, output |-> r.output, path |-> path]

\* state.evaluator.evaluate(&metadata, &transcript, &state.rules)?
rules_only(st, md, transcript) == by_path(evaluate(st, md, transcript, rules), "rules")

\* llm_or_fallback with the error handed on (a variant the properties on the
\* fallback are tested against)
llm_or_error(st, md, transcript, llm_result) ==
    IF llm_result.ok
    THEN [state |-> st, ok |-> TRUE,
          output |-> [alerts |-> to_alerts(llm_result.value.alerts),
                      suggested_next_lines |->
                          to_suggested_lines(llm_result.value.suggested_next_lines)],
          path |-> "llm"]
    ELSE [state |-> st, ok |-> FALSE,
          output |-> [alerts |-> <<>>, suggested_next_lines |-> <<>>], path |-> "llm"]

\* llm_or_fallback with the fallback run on a state of its own (a variant the
\* properties on the fallback are tested against)
llm_or_fresh_rules(st, md, transcript, llm_result) ==
    IF llm_result.ok
    THEN [state |-> st, ok |-> TRUE,
          output |-> [alerts |-> to_alerts(llm_result.value.alerts),
                      suggested_next_lines |->
                          to_suggested_lines(llm_result.value.suggested_next_lines)],
          path |-> "llm"]
    ELSE [state |-> st, ok |-> TRUE,
          output |-> evaluate(ConversationState_default, md, transcript, rules).output,
          path |-> "rules"]

\* the state with the rule ids of the alerts pushed to seen_alerts
RECURSIVE mark_all(_, _)
mark_all(st, alerts) ==
    IF alerts = <<>> THEN st
    ELSE mark_all(mark_alerted(st, Head(alerts)), Tail(alerts))

\* llm_or_fallback with the alerts of the LlmClient pushed to seen_alerts (a
\* variant the properties on what changes the state are tested against)
llm_marked_or_fallback(st, md, transcript, llm_result) ==
    IF llm_result.ok
    THEN [state |-> mark_all(st, llm_result.value.alerts), ok |-> TRUE,
          output |-> [alerts |-> to_alerts(llm_result.value.alerts),
                      suggested_next_lines |->
                          to_suggested_lines(llm_result.value.suggested_next_lines)],
          path |-> "llm"]
    ELSE rules_only(st, md, transcript)

\* match llm.evaluate(..).await { Ok(llm_result) => .., Err(e) => .. }
llm_or_fallback(st, md, transcript, llm_result) ==
    IF llm_result.ok
    THEN [state |-> st, ok |-> TRUE,
          output |-> [alerts |-> to_alerts(llm_result.value.alerts),
                      suggested_next_lines |->
                          to_suggested_lines(llm_result.value.suggested_next_lines)],
          path |-> "llm"]
    ELSE rules_only(st, md, transcript)

\* let should_use_llm = use_llm && llm_enabled
should_use_llm(use_llm) == use_llm /\ llm_enabled

\* the utterances of the calls the commands are run on
CallUtterances == {"Don't call me", Filler}

\* metadata.call_id, for the metadata that name the call
has_call_id(md) == "call_id" \in DOMAIN md

\* the history of the call id of the metadata, with the alerts returned
hear(h, md, alerts) ==
    IF has_call_id(md) THEN [h EXCEPT ![md.call_id] = @ (+) RuleIdBag(alerts)] ELSE h

\* evaluate_transcript_on that takes a failure of the LlmClient for the end
\* of the provider: llm_enabled is cleared until the next probe (a variant the
\* properties on what a failure changes are tested against)
evaluate_transcript_tripping(md, transcript, use_llm, replies) ==
    /\ ret = NoCmd
    /\ BagCardinality(emitted) < MaxEmitted
    /\ has_call_id(md) => BagCardinality(heard[md.call_id]) < MaxHeard
    /\ \E reply \in IF should_use_llm(use_llm) /\ llm.enabled
                    THEN replies ELSE {NoRequest} :
          \E r \in {IF should_use_llm(use_llm)
                    THEN llm_or_fallback(state, md, transcript,
                                         LlmClient_evaluate(llm, reply))
                    ELSE rules_only(state, md, transcript)} :
             /\ state' = r.state
             /\ ret' = [cmd |-> "evaluate_transcript", metadata |-> md,
                        transcript |-> transcript, use_llm |-> use_llm,
                        reply |-> reply, path |-> r.path, ok |-> r.ok,
                        request |-> IF reply = NoRequest THEN None
                                    ELSE Some(request_body(llm, md, transcript,
                                                           to_yaml(rules))),
                        output |-> r.output,
                        llm_used |-> should_use_llm(use_llm)]
             /\ emitted' = emitted (+) RuleIdBag(r.output.alerts)
             /\ disclosed' = IF r.path = "rules"
                             THEN disclosed \cup {id \in DisclosureRuleIds :
                                                     has_match(id, transcript)}
                             ELSE disclosed
             /\ heard' = hear(heard, md, r.output.alerts)
             /\ llm_enabled' = (llm_enabled /\ (should_use_llm(use_llm) => r.path = "llm"))
    /\ UNCHANGED <<llm, spoken, db, tasks, locks, probed>>

\* #[tauri::command] evaluate_transcript, with a provider that gives one of
\* the answers replies
evaluate_transcript_on(md, transcript, use_llm, replies) ==
    /\ ret = NoCmd
    /\ BagCardinality(emitted) < MaxEmitted
    /\ has_call_id(md) => BagCardinality(heard[md.call_id]) < MaxHeard
    /\ \E reply \in IF should_use_llm(use_llm) /\ llm.enabled
                    THEN replies ELSE {NoRequest} :
          \E r \in {IF should_use_llm(use_llm)
                    THEN llm_or_fallback(state, md, transcript,
                                         LlmClient_evaluate(llm, reply))
                    ELSE rules_only(state, md, transcript)} :
             /\ state' = r.state
             /\ ret' = [cmd |-> "evaluate_transcript", metadata |-> md,
                        transcript |-> transcript, use_llm |-> use_llm,
                        reply |-> reply, path |-> r.path, ok |-> r.ok,
                        request |-> IF reply = NoRequest THEN None
                                    ELSE Some(request_body(llm, md, transcript,
                                                           to_yaml(rules))),
                        output |-> r.output,
                        llm_used |-> should_use_llm(use_llm)]
             /\ emitted' = emitted (+) RuleIdBag(r.output.alerts)
             /\ disclosed' = IF r.path = "rules"
                             THEN disclosed \cup {id \in DisclosureRuleIds :
                                                     has_match(id, transcript)}
                             ELSE disclosed
             /\ heard' = hear(heard, md, r.output.alerts)
    /\ UNCHANGED <<llm, llm_enabled, spoken, db, tasks, locks, probed>>

\* #[tauri::command] evaluate_transcript
evaluate_transcript(md, transcript, use_llm) ==
    evaluate_transcript_on(md, transcript, use_llm, GenerateReplies)

\* the end of check_llm_status and of set_llm_model, after check_connection
llm_status(cmd, tags, r, p) ==
    /\ llm' = r.client
    /\ llm_enabled' = unwrap_or(r.result, FALSE)
    /\ ret' = [cmd |-> cmd, tags |-> tags, ok |-> TRUE,
               available |-> unwrap_or(r.result, FALSE), model |-> r.client.model]
    /\ probed' = note_probe(p, r)
    /\ UNCHANGED <<state, emitted, disclosed, spoken, db, heard, tasks, locks>>

\* #[tauri::command] check_llm_status
check_llm_status(tags) ==
    /\ ret = NoCmd
    /\ llm_status("check_llm_status", tags, check_connection(llm, tags), probed)

\* #[tauri::command] set_llm_model
set_llm_model(model, tags) ==
    /\ ret = NoCmd
    /\ llm_status("set_llm_model", tags, check_connection(set_model(llm, model), tags),
                  forget_probe(probed))

\* #[tauri::command] reset_evaluator
reset_evaluator ==
    /\ ret = NoCmd
    /\ state' = reset(state)
    /\ ret' = [cmd |-> "reset_evaluator", ok |-> TRUE]
    /\ emitted' = EmptyBag
    /\ disclosed' = {}
    /\ UNCHANGED <<llm, llm_enabled, spoken, db, heard, tasks, locks, probed>>

Next ==
    \/ \E md \in CallMetadata, transcript \in TranscriptsOf(CallUtterances), use_llm \in BOOLEAN :
          evaluate_transcript(md, transcript, use_llm)
    \/ \E tags \in TagsReplies : check_llm_status(tags)
    \/ \E model \in Models, tags \in TagsReplies : set_llm_model(model, tags)
    \/ reset_evaluator
    \/ Respond

\* the commands of lib.rs, each run to its end before the next
Spec == Init /\ [][Next]_vars

NextConfidences ==
    \/ \E md \in CallMetadata, transcript \in TranscriptsOf({"Don't call me"}),
          use_llm \in BOOLEAN :
          evaluate_transcript_on(md, transcript, use_llm, TextReplies)
    \/ \E tags \in {[kind |-> "send_error"], [kind |-> "no_list"]} : check_llm_status(tags)
    \/ reset_evaluator
    \/ Respond

\* the commands of lib.rs with a provider whose response texts give the
\* confidence of an alert as any number
SpecConfidences == Init /\ [][NextConfidences]_vars

\* the call goes on: the transcript so far grows by an utterance
Speak(u) ==
    /\ ret = NoCmd
    /\ Len(spoken) < MaxUtterances
    /\ spoken' = Append(spoken, u)
    /\ UNCHANGED <<state, llm, llm_enabled, ret, emitted, disclosed, db, heard,
                   tasks, locks, probed>>

NextGrowing ==
    \/ \E u \in CallUtterances : Speak(u)
    \/ \E md \in CallMetadata, use_llm \in BOOLEAN : evaluate_transcript(md, spoken, use_llm)
    \/ \E tags \in TagsReplies : check_llm_status(tags)
    \/ Respond

\* one conversation: the commands are run on the transcript so far of one
\* call, which only grows, and the evaluator is not reset
SpecGrowing == Init /\ [][NextGrowing]_vars

(***************************************************************************)
(* database.rs and lib.rs: the call sessions.  A row of the calls table is *)
(* kept as the status of its call id: "none" (no row), "open" (a row with  *)
(* no call_end_time) or "ended".                                           *)
(***************************************************************************)
\* CallMetadata of the calls of the sessions, with the call_id
SessionMetadata ==
    [call_id : CallIds, is_dnc_listed : {FALSE}, has_prior_consent : {FALSE},
     is_prerecorded : {FALSE}, call_type : {"outbound_sales"}]

\* what is said in the calls of the sessions
SessionUtterances == {"Don't call me"}

\* what SQLite does with a statement, the constraints of the table aside
DbOutcomes == {"ok", "error"}

\* Database::start_call_session: INSERT INTO calls, call_id TEXT PRIMARY KEY
db_start_call_session(calls, md, io) ==
    IF io = "error" \/ calls[md.call_id] # "none"
    THEN [calls |-> calls, result |-> Err]
    ELSE [calls |-> [calls EXCEPT ![md.call_id] = "open"], result |-> Ok(TRUE)]

\* Database::end_call_session: UPDATE calls SET call_end_time = .. WHERE call_id = ?1
db_end_call_session(calls, call_id, io) ==
    IF io = "error" THEN [calls |-> calls, result |-> Err]
    ELSE [calls |-> [calls EXCEPT ![call_id] = IF @ = "none" THEN "none" ELSE "ended"],
          result |-> Ok(TRUE)]

\* #[tauri::command] start_call_session
start_call_session(md, io) ==
    /\ ret = NoCmd
    /\ \E r \in {db_start_call_session(db, md, io)} :
          /\ db' = r.calls
          /\ state' = IF r.result.ok THEN reset(state) ELSE state
          /\ emitted' = IF r.result.ok THEN EmptyBag ELSE emitted
          /\ disclosed' = IF r.result.ok THEN {} ELSE disclosed
          /\ heard' = IF r.result.ok THEN [heard EXCEPT ![md.call_id] = EmptyBag]
                       ELSE heard
          /\ ret' = [cmd |-> "start_call_session", metadata |-> md, io |-> io,
                     ok |-> r.result.ok]
    /\ UNCHANGED <<llm, llm_enabled, spoken, tasks, locks, probed>>

\* #[tauri::command] end_call_session
end_call_session(call_id, io) ==
    /\ ret = NoCmd
    /\ \E r \in {db_end_call_session(db, call_id, io)} :
          /\ db' = r.calls
          /\ ret' = [cmd |-> "end_call_session", call_id |-> call_id, io |-> io,
                     ok |-> r.result.ok]
    /\ UNCHANGED <<state, llm, llm_enabled, emitted, disclosed, spoken, heard,
                   tasks, locks, probed>>

NextSessions ==
    \/ \E md \in SessionMetadata, io \in DbOutcomes : start_call_session(md, io)
    \/ \E md \in SessionMetadata, transcript \in TranscriptsOf(SessionUtterances),
          use_llm \in BOOLEAN :
          evaluate_transcript(md, transcript, use_llm)
    \/ \E id \in CallIds, io \in DbOutcomes : end_call_session(id, io)
    \/ \E tags \in TagsReplies : check_llm_status(tags)
    \/ \E model \in Models, tags \in TagsReplies : set_llm_model(model, tags)
    \/ reset_evaluator
    \/ Respond

\* the commands of lib.rs on the calls of two sessions, each command run to its
\* end before the next
SpecSessions == Init /\ [][NextSessions]_vars

NextTwoCalls ==
    \/ \E md \in SessionMetadata, io \in DbOutcomes : start_call_session(md, io)
    \/ \E md \in SessionMetadata, transcript \in TranscriptsOf(SessionUtterances),
          use_llm \in BOOLEAN :
          evaluate_transcript(md, transcript, use_llm)
    \/ \E id \in CallIds, io \in DbOutcomes : end_call_session(id, io)
    \/ Respond

\* two calls served by the deterministic evaluator alone: their sessions are
\* started and ended and their transcripts evaluated, and nothing else is run
SpecTwoCalls == Init /\ [][NextTwoCalls]_vars

(***************************************************************************)
(* evaluator.rs with several callers at once.  A task runs evaluate or     *)
(* reset a step at a time: it takes the Mutex, works on the state through  *)
(* the guard (one rule of the loop a step), and drops the guard when it    *)
(* returns.  state0 and state1 of a task are history: the state it found   *)
(* when it took the Mutex and the state it left when it dropped the guard. *)
(***************************************************************************)
\* the metadata of the calls of the tasks
TaskMetadata ==
    {[is_dnc_listed |-> TRUE, has_prior_consent |-> FALSE, is_prerecorded |-> FALSE,
      call_type |-> "outbound_sales"]}

\* the transcripts of the calls of the tasks
TaskTranscripts == {<<"Don't call me">>, <<"But wait">>}

\* the transcripts of the calls of evaluate
EvaluatorTranscripts == TaskTranscripts \cup {<<"opt me out", "this is Acme">>}

\* Mutex::lock that does not wait for the holder (a variant the properties on
\* the lock are tested against)
can_lock_always(l) == TRUE

\* self.state.lock(): the Mutex is free
can_lock(l) == l.state_mutex = 0

\* Mutex::lock returns Err(PoisonError): a thread panicked while it held the
\* guard of the Mutex of the name ("state" or "db")
is_poisoned(l, mutex) == mutex \in l.poisoned

\* a task calls evaluate: let mut alerts = Vec::new(); let mut suggestions = Vec::new();
ev_call(t, md, transcript) ==
    /\ tasks[t] = Idle
    /\ tasks' = [tasks EXCEPT ![t] =
                    [pc |-> "lock", op |-> "evaluate", metadata |-> md,
                     transcript |-> transcript, alerts |-> <<>>, suggestions |-> <<>>]]
    /\ UNCHANGED <<state, llm, llm_enabled, ret, emitted, disclosed, spoken, db, heard,
                   locks, probed>>

\* a task calls reset
reset_call(t) ==
    /\ tasks[t] = Idle
    /\ tasks' = [tasks EXCEPT ![t] = [pc |-> "lock", op |-> "reset"]]
    /\ UNCHANGED <<state, llm, llm_enabled, ret, emitted, disclosed, spoken, db, heard,
                   locks, probed>>

\* the frame of a task that has taken the Mutex
locked(frame, st) ==
    IF frame.op = "evaluate"
    THEN [pc |-> "rules", op |-> "evaluate", metadata |-> frame.metadata,
          transcript |-> frame.transcript, alerts |-> frame.alerts,
          suggestions |-> frame.suggestions, k |-> 1, state0 |-> st]
    ELSE [pc |-> "assign", op |-> "reset", state0 |-> st]

\* let mut state = self.state.lock().unwrap();
ev_lock(t) ==
    /\ tasks[t].pc = "lock"
    /\ can_lock(locks)
    /\ locks' = [locks EXCEPT !.state_mutex = t]
    /\ tasks' = [tasks EXCEPT ![t] = locked(tasks[t], state)]
    /\ UNCHANGED <<state, llm, llm_enabled, ret, emitted, disclosed, spoken, db, heard,
                   probed>>

\* for rule in enabled_rules { .. }: one rule, on the state behind the guard
ev_rule(t) ==
    /\ tasks[t].pc = "rules"
    /\ tasks[t].k <= Len(enabled_rules(rules))
    /\ \E acc \in {process_rule(tasks[t].metadata, tasks[t].transcript,
                                 transcript_to_lowercase(tasks[t].transcript),
                                 enabled_rules(rules)[tasks[t].k],
                                 [state |-> state, alerts |-> tasks[t].alerts,
                                  suggestions |-> tasks[t].suggestions])} :
          /\ state' = acc.state
          /\ tasks' = [tasks EXCEPT ![t].alerts = acc.alerts,
                                    ![t].suggestions = acc.suggestions,
                                    ![t].k = @ + 1]
    /\ UNCHANGED <<llm, llm_enabled, ret, emitted, disclosed, spoken, db, heard, locks,
                   probed>>

\* the contextual suggestions, truncate, Ok(EvaluationOutput { .. }); the guard
\* is dropped
ev_return(t) ==
    /\ tasks[t].pc = "rules"
    /\ tasks[t].k > Len(enabled_rules(rules))
    /\ tasks' = [tasks EXCEPT ![t] =
                    [pc |-> "returned", op |-> "evaluate",
                     metadata |-> tasks[t].metadata, transcript |-> tasks[t].transcript,
                     output |-> evaluation_output(tasks[t].metadata, tasks[t].transcript,
                                    [state |-> state, alerts |-> tasks[t].alerts,
                                     suggestions |-> tasks[t].suggestions]).output,
                     state0 |-> tasks[t].state0, state1 |-> state]]
    /\ locks' = [locks EXCEPT !.state_mutex = 0]
    /\ UNCHANGED <<state, llm, llm_enabled, ret, emitted, disclosed, spoken, db, heard,
                   probed>>

\* *state = ConversationState::default(); the guard is dropped
reset_assign(t) ==
    /\ tasks[t].pc = "assign"
    /\ state' = reset(state)
    /\ tasks' = [tasks EXCEPT ![t] =
                    [pc |-> "returned", op |-> "reset", state0 |-> tasks[t].state0,
                     state1 |-> reset(state)]]
    /\ locks' = [locks EXCEPT !.state_mutex = 0]
    /\ UNCHANGED <<llm, llm_enabled, ret, emitted, disclosed, spoken, db, heard,
                   probed>>

\* the caller takes what the call returned
task_done(t) ==
    /\ tasks[t].pc = "returned"
    /\ tasks' = [tasks EXCEPT ![t] = Idle]
    /\ UNCHANGED <<state, llm, llm_enabled, ret, emitted, disclosed, spoken, db, heard,
                   locks, probed>>

NextEvaluators ==
    \E t \in Tasks :
        \/ \E md \in TaskMetadata, transcript \in EvaluatorTranscripts :
              ev_call(t, md, transcript)
        \/ reset_call(t)
        \/ ev_lock(t)
        \/ ev_rule(t)
        \/ ev_return(t)
        \/ reset_assign(t)
        \/ task_done(t)

\* evaluate and reset of the one ComplianceEvaluator, called by several tasks
\* at once
SpecEvaluators == Init /\ [][NextEvaluators]_vars

(***************************************************************************)
(* lib.rs with several commands at once.  A task runs evaluate_transcript, *)
(* check_llm_status or set_llm_model a step at a time, a step ending where *)
(* the command takes a lock or awaits the provider.  The call of           *)
(* ComplianceEvaluator::evaluate is one step (see SpecEvaluators).         *)
(* requests and evaluations of a task are history: the generation requests *)
(* it has sent and the calls of the ComplianceEvaluator it has made.       *)
(***************************************************************************)
\* the answers of the provider to the generation requests of the tasks
TaskReplies ==
    {[kind |-> "timeout"],
     [kind |-> "ok",
      response |-> [alerts |-> <<LlmAlert("DNC-001")>>, suggested_next_lines |-> <<>>]]}

\* the answers of the provider to GET /api/tags of the tasks
TaskTags == {[kind |-> "send_error"], [kind |-> "no_list"]}

\* the transcripts of the calls: one of ASCII characters, and one where the
\* quote of DNC-001 ends inside the character of two bytes
OrchestratorTranscripts == {<<"Don't call me">>, <<"Don't call me", Senor>>}

\* the states of the conversation the calls of the tasks find
TaskStates ==
    {[ConversationState_default EXCEPT !.dnc_requested = d, !.seen_alerts = SetToBag(ids)] :
        d \in BOOLEAN, ids \in SUBSET {"DNC-001", "DNC-002", "DNC-003"}}

\* state.evaluator.evaluate(&metadata, &transcript, &state.rules) of the calls
\* of the tasks, computed once: whether it panics, and the state it leaves
\* with what it returns
TaskEvaluations ==
    [st \in TaskStates, md \in TaskMetadata,
     transcript \in TaskTranscripts \cup OrchestratorTranscripts |->
        IF evaluate_panics(st, transcript, rules)
        THEN [panics |-> TRUE, state |-> state_at_panic(st, md, transcript, rules)]
        ELSE [panics |-> FALSE, result |-> rules_only(st, md, transcript)]] @@ <<>>

\* no output yet
NoOutput == [alerts |-> <<>>, suggested_next_lines |-> <<>>]

\* a task is called with evaluate_transcript
et_call(t, md, transcript, use_llm) ==
    /\ tasks[t] = Idle
    /\ tasks' = [tasks EXCEPT ![t] =
                    [pc |-> "start", op |-> "evaluate_transcript", metadata |-> md,
                     transcript |-> transcript, use_llm |-> use_llm,
                     should_use_llm |-> FALSE, requests |-> 0, evaluations |-> 0,
                     path |-> "none", output |-> NoOutput]]
    /\ UNCHANGED <<state, llm, llm_enabled, ret, emitted, disclosed, spoken, db, heard,
                   locks, probed>>

\* let llm_enabled = *state.llm_enabled.lock().unwrap();
\* let should_use_llm = use_llm && llm_enabled; if should_use_llm { .. } else { .. }
et_start(t) ==
    /\ tasks[t].pc = "start"
    /\ tasks' = [tasks EXCEPT ![t].should_use_llm = should_use_llm(tasks[t].use_llm),
                              ![t].pc = IF should_use_llm(tasks[t].use_llm)
                                        THEN "read_lock" ELSE "rules"]
    /\ UNCHANGED <<state, llm, llm_enabled, ret, emitted, disclosed, spoken, db, heard,
                   locks, probed>>

\* RwLock::read: no task holds the lock for writing
can_read(l) == l.llm_writer = 0

\* let llm = state.llm.read().await;
et_read_lock(t) ==
    /\ tasks[t].pc = "read_lock"
    /\ can_read(locks)
    /\ locks' = [locks EXCEPT !.llm_readers = @ \cup {t}]
    /\ tasks' = [tasks EXCEPT ![t].pc = "llm_evaluate"]
    /\ UNCHANGED <<state, llm, llm_enabled, ret, emitted, disclosed, spoken, db, heard,
                   probed>>

\* LlmClient::evaluate up to the request: if !self.enabled { return Err(..) },
\* else self.client.post(&url).json(&request_body).send()
et_llm_evaluate(t) ==
    /\ tasks[t].pc = "llm_evaluate"
    /\ tasks' = IF llm.enabled
                THEN [tasks EXCEPT ![t].pc = "await", ![t].requests = @ + 1]
                ELSE [tasks EXCEPT ![t].pc = "fallback"]
    /\ UNCHANGED <<state, llm, llm_enabled, ret, emitted, disclosed, spoken, db, heard,
                   locks, probed>>

\* after_reply with a failed request sent once more (a variant the properties
\* on the requests of a call are tested against)
after_reply_retrying(frame, llm_result) ==
    IF llm_result.ok THEN "finish"
    ELSE IF frame.requests < 2 THEN "llm_evaluate" ELSE "fallback"

\* match llm.evaluate(..).await: where the call goes on
after_reply(frame, llm_result) == IF llm_result.ok THEN "finish" ELSE "fallback"

\* the answer of the provider arrives: the rest of LlmClient::evaluate, and the
\* Ok arm of the match
et_reply(t, reply) ==
    /\ tasks[t].pc = "await"
    /\ \E r \in {LlmClient_evaluate(llm, reply)} :
          tasks' = [tasks EXCEPT
                       ![t].pc = after_reply(tasks[t], r),
                       ![t].path = IF r.ok THEN "llm" ELSE @,
                       ![t].output = IF r.ok
                                     THEN [alerts |-> to_alerts(r.value.alerts),
                                           suggested_next_lines |->
                                               to_suggested_lines(r.value.suggested_next_lines)]
                                     ELSE @]
    /\ UNCHANGED <<state, llm, llm_enabled, ret, emitted, disclosed, spoken, db, heard,
                   locks, probed>>

\* state.evaluator.evaluate(&metadata, &transcript, &state.rules)?, in the Err
\* arm or in the else branch
et_rules(t) ==
    /\ tasks[t].pc \in {"fallback", "rules"}
    /\ can_lock(locks)
    /\ ~is_poisoned(locks, "state")
    /\ ~TaskEvaluations[state, tasks[t].metadata, tasks[t].transcript].panics
    /\ \E r \in {TaskEvaluations[state, tasks[t].metadata, tasks[t].transcript].result} :
          /\ state' = r.state
          /\ tasks' = [tasks EXCEPT ![t].pc = "finish", ![t].path = r.path,
                                    ![t].output = r.output,
                                    ![t].evaluations = @ + 1]
    /\ UNCHANGED <<llm, llm_enabled, ret, emitted, disclosed, spoken, db, heard, locks,
                   probed>>

\* the read guard, if taken, is dropped; Ok(EvaluationResult { .. })
et_return(t) ==
    /\ tasks[t].pc = "finish"
    /\ locks' = [locks EXCEPT !.llm_readers = @ \ {t}]
    /\ tasks' = [tasks EXCEPT ![t].pc = "returned"]
    /\ UNCHANGED <<state, llm, llm_enabled, ret, emitted, disclosed, spoken, db, heard,
                   probed>>

\* a task is called with check_llm_status
cs_call(t) ==
    /\ tasks[t] = Idle
    /\ tasks' = [tasks EXCEPT ![t] =
                    [pc |-> "write_lock", op |-> "check_llm_status", connected |-> FALSE]]
    /\ UNCHANGED <<state, llm, llm_enabled, ret, emitted, disclosed, spoken, db, heard,
                   locks, probed>>

\* a task is called with set_llm_model
sm_call(t, model) ==
    /\ tasks[t] = Idle
    /\ tasks' = [tasks EXCEPT ![t] =
                    [pc |-> "write_lock", op |-> "set_llm_model", model |-> model,
                     connected |-> FALSE]]
    /\ UNCHANGED <<state, llm, llm_enabled, ret, emitted, disclosed, spoken, db, heard,
                   locks, probed>>

\* RwLock::write that does not wait for the readers (a variant the properties
\* on the lock of the LlmClient are tested against)
can_write_despite_readers(l) == l.llm_writer = 0

\* RwLock::write: no task holds the lock
can_write(l) == l.llm_readers = {} /\ l.llm_writer = 0

\* let mut llm = state.llm.write().await;
cs_write_lock(t) ==
    /\ tasks[t].pc = "write_lock"
    /\ can_write(locks)
    /\ locks' = [locks EXCEPT !.llm_writer = t]
    /\ tasks' = [tasks EXCEPT ![t].pc = IF tasks[t].op = "set_llm_model"
                                        THEN "set_model" ELSE "check"]
    /\ UNCHANGED <<state, llm, llm_enabled, ret, emitted, disclosed, spoken, db, heard,
                   probed>>

\* llm.set_model(model);
sm_set_model(t) ==
    /\ tasks[t].pc = "set_model"
    /\ llm' = set_model(llm, tasks[t].model)
    /\ tasks' = [tasks EXCEPT ![t].pc = "check"]
    /\ probed' = forget_probe(probed)
    /\ UNCHANGED <<state, llm_enabled, ret, emitted, disclosed, spoken, db, heard, locks>>

\* let connected = llm.check_connection().await.unwrap_or(false);
cs_check(t, tags) ==
    /\ tasks[t].pc = "check"
    /\ \E r \in {check_connection(llm, tags)} :
          /\ llm' = r.client
          /\ tasks' = [tasks EXCEPT ![t].pc = "enable",
                                    ![t].connected = unwrap_or(r.result, FALSE)]
          /\ probed' = note_probe(probed, r)
    /\ UNCHANGED <<state, llm_enabled, ret, emitted, disclosed, spoken, db, heard, locks>>

\* *state.llm_enabled.lock().unwrap() = connected;
cs_enable(t) ==
    /\ tasks[t].pc = "enable"
    /\ llm_enabled' = tasks[t].connected
    /\ tasks' = [tasks EXCEPT ![t].pc = "status"]
    /\ UNCHANGED <<state, llm, ret, emitted, disclosed, spoken, db, heard, locks,
                   probed>>

\* Ok(LlmStatus { .. }); the write guard is dropped
cs_return(t) ==
    /\ tasks[t].pc = "status"
    /\ locks' = [locks EXCEPT !.llm_writer = 0]
    /\ tasks' = [tasks EXCEPT ![t] =
                    [pc |-> "returned", op |-> tasks[t].op,
                     available |-> tasks[t].connected, model |-> llm.model]]
    /\ UNCHANGED <<state, llm, llm_enabled, ret, emitted, disclosed, spoken, db, heard,
                   probed>>

NextTasks ==
    \E t \in Tasks :
        \/ \E md \in TaskMetadata, transcript \in TaskTranscripts, use_llm \in BOOLEAN :
              et_call(t, md, transcript, use_llm)
        \/ et_start(t)
        \/ et_read_lock(t)
        \/ et_llm_evaluate(t)
        \/ \E reply \in TaskReplies : et_reply(t, reply)
        \/ et_rules(t)
        \/ et_return(t)
        \/ cs_call(t)
        \/ \E model \in Models : sm_call(t, model)
        \/ cs_write_lock(t)
        \/ sm_set_model(t)
        \/ \E tags \in TaskTags : cs_check(t, tags)
        \/ cs_enable(t)
        \/ cs_return(t)
        \/ task_done(t)

\* the commands of lib.rs on the LlmClient, called by several tasks at once
SpecTasks == Init /\ [][NextTasks]_vars

(***************************************************************************)
(* lib.rs: all the commands that take a lock, called by several tasks at   *)
(* once.  To the steps of SpecTasks come those of start_call_session,      *)
(* end_call_session and reset_evaluator, and the panics: a slice of the    *)
(* transcript that is not at the boundary of a character, and unwrap() on  *)
(* a poisoned Mutex.  A panic unwinds the task: its guards are dropped,    *)
(* the Mutex whose guard it held is poisoned, and the command does not     *)
(* return.                                                                 *)
(***************************************************************************)
\* a task whose command panicked
Panicked(op) == [pc |-> "panicked", op |-> op]

\* the metadata of the sessions started
OrchestratorSessions == {md \in SessionMetadata : md.call_id = "call-1"}

\* state.evaluator.evaluate(..) panics: at self.state.lock().unwrap() when
\* the Mutex is poisoned, else at the slice of a quote, with the guard held
et_panic(t) ==
    /\ tasks[t].pc \in {"fallback", "rules"}
    /\ can_lock(locks)
    /\ \/ is_poisoned(locks, "state")
       \/ TaskEvaluations[state, tasks[t].metadata, tasks[t].transcript].panics
    /\ state' = IF is_poisoned(locks, "state") THEN state
                ELSE TaskEvaluations[state, tasks[t].metadata, tasks[t].transcript].state
    /\ locks' = [locks EXCEPT !.llm_readers = @ \ {t}, !.poisoned = @ \cup {"state"}]
    /\ tasks' = [tasks EXCEPT ![t] = Panicked(tasks[t].op)]
    /\ UNCHANGED <<llm, llm_enabled, ret, emitted, disclosed, spoken, db, heard, probed>>

\* a task is called with reset_evaluator
re_call(t) ==
    /\ tasks[t] = Idle
    /\ tasks' = [tasks EXCEPT ![t] = [pc |-> "reset", op |-> "reset_evaluator"]]
    /\ UNCHANGED <<state, llm, llm_enabled, ret, emitted, disclosed, spoken, db, heard,
                   locks, probed>>

\* state.evaluator.reset(); Ok(())
re_reset(t) ==
    /\ tasks[t].pc = "reset"
    /\ can_lock(locks)
    /\ ~is_poisoned(locks, "state")
    /\ state' = reset(state)
    /\ tasks' = [tasks EXCEPT ![t] = [pc |-> "returned", op |-> tasks[t].op, ok |-> TRUE]]
    /\ UNCHANGED <<llm, llm_enabled, ret, emitted, disclosed, spoken, db, heard, locks,
                   probed>>

\* state.evaluator.reset() panics at self.state.lock().unwrap()
re_panic(t) ==
    /\ tasks[t].pc = "reset"
    /\ can_lock(locks)
    /\ is_poisoned(locks, "state")
    /\ tasks' = [tasks EXCEPT ![t] = Panicked(tasks[t].op)]
    /\ UNCHANGED <<state, llm, llm_enabled, ret, emitted, disclosed, spoken, db, heard,
                   locks, probed>>

\* a task is called with start_call_session
ss_call(t, md) ==
    /\ tasks[t] = Idle
    /\ tasks' = [tasks EXCEPT ![t] =
                    [pc |-> "start_db", op |-> "start_call_session", metadata |-> md]]
    /\ UNCHANGED <<state, llm, llm_enabled, ret, emitted, disclosed, spoken, db, heard,
                   locks, probed>>

\* a task is called with end_call_session
es_call(t, call_id) ==
    /\ tasks[t] = Idle
    /\ tasks' = [tasks EXCEPT ![t] =
                    [pc |-> "end_db", op |-> "end_call_session", call_id |-> call_id]]
    /\ UNCHANGED <<state, llm, llm_enabled, ret, emitted, disclosed, spoken, db, heard,
                   locks, probed>>

\* state.db.lock(): the Mutex is free
can_lock_db(l) == l.db_mutex = 0

\* let db = state.db.lock().map_err(|e| e.to_string())?; the lock is poisoned
db_poisoned(t) ==
    /\ tasks[t].pc \in {"start_db", "end_db"}
    /\ can_lock_db(locks)
    /\ is_poisoned(locks, "db")
    /\ tasks' = [tasks EXCEPT ![t] = [pc |-> "returned", op |-> tasks[t].op, ok |-> FALSE]]
    /\ UNCHANGED <<state, llm, llm_enabled, ret, emitted, disclosed, spoken, db, heard,
                   locks, probed>>

\* let db = state.db.lock()..; db.start_call_session(&metadata).map_err(..)?;
\* the guard is kept when the call goes on
ss_db(t, io) ==
    /\ tasks[t].pc = "start_db"
    /\ can_lock_db(locks)
    /\ ~is_poisoned(locks, "db")
    /\ \E r \in {db_start_call_session(db, tasks[t].metadata, io)} :
          /\ db' = r.calls
          /\ locks' = IF r.result.ok THEN [locks EXCEPT !.db_mutex = t] ELSE locks
          /\ tasks' = [tasks EXCEPT ![t] =
                          IF r.result.ok THEN [tasks[t] EXCEPT !.pc = "evaluator_reset"]
                          ELSE [pc |-> "returned", op |-> tasks[t].op, ok |-> FALSE]]
    /\ UNCHANGED <<state, llm, llm_enabled, ret, emitted, disclosed, spoken, heard,
                   probed>>

\* state.evaluator.reset(); Ok(metadata.call_id); the guard of db is dropped
ss_reset(t) ==
    /\ tasks[t].pc = "evaluator_reset"
    /\ can_lock(locks)
    /\ ~is_poisoned(locks, "state")
    /\ state' = reset(state)
    /\ locks' = [locks EXCEPT !.db_mutex = 0]
    /\ tasks' = [tasks EXCEPT ![t] = [pc |-> "returned", op |-> tasks[t].op, ok |-> TRUE]]
    /\ UNCHANGED <<llm, llm_enabled, ret, emitted, disclosed, spoken, db, heard, probed>>

\* state.evaluator.reset() panics at self.state.lock().unwrap(), with the
\* guard of db held
ss_panic(t) ==
    /\ tasks[t].pc = "evaluator_reset"
    /\ can_lock(locks)
    /\ is_poisoned(locks, "state")
    /\ locks' = [locks EXCEPT !.db_mutex = 0, !.poisoned = @ \cup {"db"}]
    /\ tasks' = [tasks EXCEPT ![t] = Panicked(tasks[t].op)]
    /\ UNCHANGED <<state, llm, llm_enabled, ret, emitted, disclosed, spoken, db, heard,
                   probed>>

\* let db = state.db.lock()..; db.end_call_session(&call_id).map_err(..)?; Ok(())
es_db(t, io) ==
    /\ tasks[t].pc = "end_db"
    /\ can_lock_db(locks)
    /\ ~is_poisoned(locks, "db")
    /\ \E r \in {db_end_call_session(db, tasks[t].call_id, io)} :
          /\ db' = r.calls
          /\ tasks' = [tasks EXCEPT ![t] =
                          [pc |-> "returned", op |-> tasks[t].op, ok |-> r.result.ok]]
    /\ UNCHANGED <<state, llm, llm_enabled, ret, emitted, disclosed, spoken, heard,
                   locks, probed>>

\* a step of a command a task is in
Proceed(t) ==
    \/ et_start(t)
    \/ et_read_lock(t)
    \/ et_llm_evaluate(t)
    \/ \E reply \in TaskReplies : et_reply(t, reply)
    \/ et_rules(t)
    \/ et_panic(t)
    \/ et_return(t)
    \/ cs_write_lock(t)
    \/ sm_set_model(t)
    \/ \E tags \in TaskTags : cs_check(t, tags)
    \/ cs_enable(t)
    \/ cs_return(t)
    \/ re_reset(t)
    \/ re_panic(t)
    \/ db_poisoned(t)
    \/ \E io \in DbOutcomes : ss_db(t, io)
    \/ ss_reset(t)
    \/ ss_panic(t)
    \/ \E io \in DbOutcomes : es_db(t, io)

\* the caller sees that the command failed: the slot takes the next call
task_failed(t) ==
    /\ tasks[t].pc = "panicked"
    /\ tasks' = [tasks EXCEPT ![t] = Idle]
    /\ UNCHANGED <<state, llm, llm_enabled, ret, emitted, disclosed, spoken, db, heard,
                   locks, probed>>

NextOrchestrator ==
    \E t \in Tasks :
        \/ \E md \in TaskMetadata, transcript \in OrchestratorTranscripts,
              use_llm \in BOOLEAN : et_call(t, md, transcript, use_llm)
        \/ cs_call(t)
        \/ sm_call(t, "mistral")
        \/ re_call(t)
        \/ \E md \in OrchestratorSessions : ss_call(t, md)
        \/ es_call(t, "call-1")
        \/ Proceed(t)
        \/ task_done(t)
        \/ task_failed(t)

\* the commands of lib.rs that take a lock, called by several tasks at once
SpecOrchestrator == Init /\ [][NextOrchestrator]_vars

\* SpecOrchestrator where a command that can go on does go on: the runtime
\* polls every task, the locks are handed to those that wait for them, and
\* the provider answers every request or the request times out
FairOrchestrator == SpecOrchestrator /\ \A t \in Tasks : SF_vars(Proceed(t))

(***************************************************************************)
(* Properties of the ComplianceEvaluator.                                  *)
(***************************************************************************)
\* an evaluate command has just returned
Evaluated == ret.cmd = "evaluate"

\* the step is an evaluate command
EvaluateStep == ret = NoCmd /\ ret'.cmd = "evaluate"

\* the rule ids of a list of alerts, in order
IdsOf(alerts) == [i \in DOMAIN alerts |-> alerts[i].rule_id]

\* the alerts just returned, or none
AlertsOf(r) == IF r.cmd = "evaluate" THEN r.output.alerts ELSE <<>>

\* the texts of the suggestions just returned
SuggestionTexts(r) ==
    IF r.cmd = "evaluate"
    THEN {r.output.suggested_next_lines[i].text : i \in DOMAIN r.output.suggested_next_lines}
    ELSE {}

\* C1: between two resets, the alerts the deterministic evaluate calls have
\* returned hold no rule id twice, whatever transcripts and metadata the calls
\* were given.
C1_NoRuleIdTwice == \A id \in BagToSet(emitted) : CopiesIn(id, emitted) = 1

\* C1's case: an evaluate call was given a transcript with a trigger of DNC-001
\* after DNC-001 had been returned, and returned no DNC-001 alert.
C1_Witness ==
    /\ Evaluated
    /\ has_trigger("DNC-001", ret.transcript)
    /\ "DNC-001" \notin RuleIdsOf(ret.output.alerts)
    /\ BagIn("DNC-001", emitted)

\* C3: a deterministic evaluate returns a DNC-002 alert only if a DNC-001
\* alert was returned by an earlier call since the last reset or stands before
\* it in the same list; and an evaluate whose transcript has a trigger phrase
\* or a pattern of DNC-002, with DNC-001 returned by then and DNC-002 not
\* returned before, returns a DNC-002 alert.
C3_DncGate ==
    [][EvaluateStep =>
          /\ \A j \in DOMAIN ret'.output.alerts :
                ret'.output.alerts[j].rule_id = "DNC-002" =>
                    \/ BagIn("DNC-001", emitted)
                    \/ \E i \in 1..(j - 1) : ret'.output.alerts[i].rule_id = "DNC-001"
          /\ ( /\ has_trigger("DNC-002", ret'.transcript)
                  \/ has_match("DNC-002", ret'.transcript)
               /\ BagIn("DNC-001", emitted')
               /\ ~BagIn("DNC-002", emitted) )
             => "DNC-002" \in RuleIdsOf(ret'.output.alerts)]_vars

\* C3's case: the transcript has the trigger of DNC-002 before the trigger of
\* DNC-001, and the call returned DNC-001 and then DNC-002.
C3_Witness ==
    /\ Evaluated
    /\ ret.transcript = <<"But wait", "Don't call me">>
    /\ Len(ret.output.alerts) >= 2
    /\ ret.output.alerts[1].rule_id = "DNC-001"
    /\ ret.output.alerts[2].rule_id = "DNC-002"

\* what check_metadata_rule asks of the metadata for the rule
MetadataCondition(id, md) ==
    /\ ~md.has_prior_consent
    /\ IF id = "DNC-003" THEN md.is_dnc_listed ELSE md.is_prerecorded

\* C8: when DNC-003 (PREC-001) is not in seen_alerts, a deterministic evaluate
\* returns its alert exactly if the number is DNC listed (the call is
\* prerecorded) without prior consent, and the alert has confidence 95,
\* whatever the transcript and the rest of the state.
C8_MetadataRules ==
    [][EvaluateStep =>
          \A id \in {"DNC-003", "PREC-001"} :
             ~BagIn(id, state.seen_alerts) =>
                /\ id \in RuleIdsOf(ret'.output.alerts) <=> MetadataCondition(id, ret'.metadata)
                /\ \A i \in DOMAIN ret'.output.alerts :
                      ret'.output.alerts[i].rule_id = id =>
                          ret'.output.alerts[i].confidence = 95]_vars

\* C8's case: on a state with a request noted and a transcript with a trigger of
\* another rule, the call returned DNC-003 with confidence 95 and no PREC-001.
C8_Witness ==
    /\ Evaluated
    /\ state.dnc_requested
    /\ has_trigger("DNC-002", ret.transcript)
    /\ ret.metadata.is_dnc_listed /\ ~ret.metadata.is_prerecorded
    /\ \E i \in DOMAIN ret.output.alerts :
          /\ ret.output.alerts[i].rule_id = "DNC-003"
          /\ ret.output.alerts[i].confidence = 95
    /\ "PREC-001" \notin RuleIdsOf(ret.output.alerts)

\* C9: with the default catalog no deterministic evaluate returns an alert of
\* DISC-001, DISC-002, DISC-003, IDENT-001 or REC-001, and none of these ids is
\* ever in seen_alerts.
C9_NoDisclosureAlerts ==
    \A id \in DisclosureRuleIds :
        /\ ~BagIn(id, emitted)
        /\ ~BagIn(id, state.seen_alerts)
        /\ id \notin RuleIdsOf(AlertsOf(ret))

\* C9's case: the patterns of DISC-001, DISC-002, IDENT-001 and REC-001 have
\* all matched a processed transcript, the last one in the call just returned.
C9_Witness ==
    /\ Evaluated
    /\ disclosed = {"DISC-001", "DISC-002", "IDENT-001", "REC-001"}
    /\ has_match("REC-001", ret.transcript)
    /\ state.disclosures.recording_disclosed

\* C10: once a deterministic evaluate has processed a transcript that matches
\* DISC-001 (DISC-002), no output until the next reset, that call's included,
\* holds the generic suggestion to identify oneself (to state the sales
\* purpose).
C10_DisclosureStopsSuggestion ==
    /\ "DISC-001" \in disclosed => IdentifySuggestion \notin SuggestionTexts(ret)
    /\ "DISC-002" \in disclosed => PurposeSuggestion \notin SuggestionTexts(ret)

\* C10's case: DISC-001 matched in an earlier call; this outbound sales call has
\* a transcript of more than 100 characters without a match of DISC-001 and
\* returns the suggestion to state the sales purpose, the other generic one.
C10_Witness ==
    /\ Evaluated
    /\ "DISC-001" \in disclosed
    /\ ~has_match("DISC-001", ret.transcript)
    /\ ret.metadata.call_type = "outbound_sales"
    /\ transcript_len(ret.transcript) > 100
    /\ PurposeSuggestion \in SuggestionTexts(ret)

\* the rules with trigger phrases that need no metadata and set no disclosure
TriggerRuleIds ==
    {r.id : r \in {r \in Range(rules) :
                      /\ r.enabled /\ ~r.requires_metadata
                      /\ r.id \notin DisclosureRuleIds /\ r.triggers # <<>>}}

\* the step is an evaluate command on a state as reset leaves it
FreshEvaluateStep == EvaluateStep /\ state = ConversationState_default

\* the quote holds a trigger phrase of the rule, in any letter case
QuotesTrigger(id, quote) ==
    \E j \in DOMAIN RuleOf(id).triggers :
        IsSome(str_find(to_lowercase(quote), to_lowercase(RuleOf(id).triggers[j])))

\* the alerts hold exactly one of the rule, with confidence 90 and a quote that
\* holds a trigger phrase of the rule
OneTriggerAlert(id, alerts) ==
    /\ Cardinality({i \in DOMAIN alerts : alerts[i].rule_id = id}) = 1
    /\ \A i \in DOMAIN alerts :
          alerts[i].rule_id = id =>
              /\ alerts[i].confidence = 90
              /\ QuotesTrigger(id, alerts[i].evidence.quote)

ListedNoConsent ==
    [is_dnc_listed |-> TRUE, has_prior_consent |-> FALSE, is_prerecorded |-> FALSE,
     call_type |-> "outbound_sales"]

\* the transcripts whose only match in the catalog is the trigger "don't call me"
OnlyDontCallMe == {<<"Don't call me">>, <<"Don't call me", "Don't call me">>}

\* the rule ids and the confidences of a list of alerts, in order
IdsAndConfidences(alerts) ==
    [i \in DOMAIN alerts |-> <<alerts[i].rule_id, alerts[i].confidence>>]

\* the step is an evaluate command with the inputs of the scenario
ScenarioStep ==
    /\ EvaluateStep
    /\ ret'.metadata = ListedNoConsent
    /\ ret'.transcript \in OnlyDontCallMe

\* C13: with the metadata of a listed number without consent and a transcript
\* whose only match is the trigger "don't call me", evaluate on a fresh state
\* returns DNC-001 with confidence 90 and then DNC-003 with confidence 95 and
\* nothing else, and evaluate with the same inputs on the state the first call
\* left returns no alert.
C13_ListedNumberScenario ==
    [][ScenarioStep =>
          /\ state = ConversationState_default =>
                IdsAndConfidences(ret'.output.alerts) = << <<"DNC-001", 90>>, <<"DNC-003", 95>> >>
          /\ state = evaluate(ConversationState_default, ret'.metadata,
                              ret'.transcript, rules).state =>
                ret'.output.alerts = <<>>]_vars

\* C13's case: the second call of the scenario has returned; the two alerts
\* since the reset are those of the first call.
C13_Witness ==
    /\ Evaluated
    /\ ret.metadata = ListedNoConsent
    /\ ret.transcript = <<"Don't call me">>
    /\ ret.output.alerts = <<>>
    /\ emitted = SetToBag({"DNC-001", "DNC-003"})
    /\ state = evaluate(ConversationState_default, ret.metadata, ret.transcript, rules).state

\* C21: in every state seen_alerts holds exactly the rule ids of the alerts
\* the deterministic evaluate calls have returned since the last reset, each
\* once; and an evaluate call adds to seen_alerts the rule ids of the alerts
\* it returns, each once, and nothing else.
C21_SeenAlertsAreReturned ==
    /\ [](/\ state.seen_alerts = emitted
          /\ \A id \in BagToSet(state.seen_alerts) : CopiesIn(id, state.seen_alerts) = 1)
    /\ [][EvaluateStep =>
             /\ state'.seen_alerts = state.seen_alerts (+) RuleIdBag(ret'.output.alerts)
             /\ BagToSet(state'.seen_alerts)
                    = BagToSet(state.seen_alerts) \cup RuleIdsOf(ret'.output.alerts)]_vars

\* C21's case: the call returned an alert while seen_alerts held the id of an
\* earlier call's alert, and its transcript had a trigger of DNC-002, a rule
\* that was checked and returned no alert: seen_alerts holds the two ids
\* returned and not DNC-002.
C21_Witness ==
    /\ Evaluated
    /\ Len(ret.output.alerts) = 1
    /\ BagCardinality(state.seen_alerts) = 2
    /\ has_trigger("DNC-002", ret.transcript)
    /\ ~BagIn("DNC-002", state.seen_alerts)

\* the evidence quotes text of the transcript and its offsets lie in it
InTranscript(evidence, transcript) ==
    /\ IsSome(str_find(Text(transcript), evidence.quote))
    /\ 0 <= evidence.start_char
    /\ evidence.start_char <= evidence.end_char
    /\ evidence.end_char <= transcript_len(transcript)

\* C24: for every alert a deterministic evaluate returns, of a metadata rule
\* or not, the quote of the evidence is a substring of the transcript of the
\* call and 0 <= start_char <= end_char <= the length of the transcript.
C24_EvidenceInTranscript ==
    Evaluated =>
        \A i \in DOMAIN ret.output.alerts :
            InTranscript(ret.output.alerts[i].evidence, ret.transcript)

\* the utterance has a trigger phrase or a pattern match of DNC-002
IsContinuation(u) == has_trigger("DNC-002", <<u>>) \/ has_match("DNC-002", <<u>>)

\* the transcript without the utterances that match DNC-002
WithoutContinuation(transcript) == SelectSeq(transcript, LAMBDA u : ~IsContinuation(u))

\* the step is an evaluate command that finds a match of DNC-002 while
\* dnc_requested is false: it was false before the call and the transcript
\* has no match of DNC-001, the rule checked before DNC-002
GateClosedStep ==
    /\ EvaluateStep
    /\ ~state.dnc_requested
    /\ ~has_trigger("DNC-001", ret'.transcript) /\ ~has_match("DNC-001", ret'.transcript)
    /\ has_trigger("DNC-002", ret'.transcript) \/ has_match("DNC-002", ret'.transcript)

\* C28: an evaluate that finds a match of DNC-002 while dnc_requested is
\* false returns no DNC-002 alert, returns the alerts of the same rules and
\* leaves the state that the call would on the transcript without the
\* utterances that match DNC-002, and leaves DNC-002 out of seen_alerts, so
\* that an evaluate of the transcript grown by a DNC-001 trigger returns a
\* DNC-002 alert.
C28_ClosedGateChangesNothing ==
    [][GateClosedStep =>
          /\ "DNC-002" \notin RuleIdsOf(ret'.output.alerts)
          /\ IdsOf(ret'.output.alerts)
                = IdsOf(evaluate(state, ret'.metadata,
                                 WithoutContinuation(ret'.transcript), rules).output.alerts)
          /\ state' = evaluate(state, ret'.metadata,
                               WithoutContinuation(ret'.transcript), rules).state
          /\ ~BagIn("DNC-002", state'.seen_alerts)
          /\ "DNC-002" \in RuleIdsOf(evaluate(state', ret'.metadata,
                                              Append(ret'.transcript, "Don't call me"),
                                              rules).output.alerts)]_vars

\* C28's case: the transcript has a trigger of DNC-002 and one of CONS-001,
\* no request was noted, and the call returned CONS-001 alone and noted the
\* revocation.
C28_Witness ==
    /\ Evaluated
    /\ ret.transcript = <<"But wait", "opt me out">>
    /\ ~state.dnc_requested
    /\ state.consent_revoked
    /\ RuleIdsOf(ret.output.alerts) = {"CONS-001"}
    /\ ~BagIn("DNC-002", state.seen_alerts)

\* the rule of the id in a catalog
RuleIn(rs, id) == rs[CHOOSE k \in DOMAIN rs : rs[k].id = id]

\* the disclosure flag of the rule of the id
DisclosureFlag(st, id) ==
    CASE id = "DISC-001" -> st.disclosures.seller_identified
      [] id = "DISC-002" -> st.disclosures.sales_purpose_stated
      [] id = "DISC-003" -> st.disclosures.product_described
      [] id = "IDENT-001" -> st.disclosures.callback_provided
      [] id = "REC-001" -> st.disclosures.recording_disclosed

\* the step is an evaluate with one of the catalogs
EvaluateInStep == ret = NoCmd /\ ret'.cmd = "evaluate_in"

\* C29: with any catalog, an evaluate whose transcript has a trigger phrase
\* of a disclosure rule (DISC-001, DISC-002, DISC-003, IDENT-001, REC-001)
\* leaves the disclosure flag of the rule true and returns no alert of the
\* rule, as it does when a pattern of the rule matches.
C29_TriggerSetsDisclosure ==
    [][EvaluateInStep =>
          \A id \in DisclosureRuleIds :
              first_trigger(transcript_to_lowercase(ret'.transcript),
                            RuleIn(Catalogs[ret'.catalog], id)) # 0 =>
                  /\ DisclosureFlag(state', id)
                  /\ id \notin RuleIdsOf(ret'.output.alerts)]_vars

\* the offset of the phrase in the lower-cased text of the transcript
PhraseAt(transcript, phrase) ==
    str_find(to_lowercase(Text(transcript)), to_lowercase(phrase))

\* the trigger phrases of the rule that occur in the transcript, by index
PhrasesIn(transcript, rule) ==
    {j \in DOMAIN rule.triggers : IsSome(PhraseAt(transcript, rule.triggers[j]))}

\* the alert has the evidence of the phrase: its offsets in the transcript
EvidenceOfPhrase(a, transcript, phrase) ==
    /\ a.evidence.start_char = PhraseAt(transcript, phrase).some
    /\ a.evidence.end_char = PhraseAt(transcript, phrase).some + Len(phrase)

\* what C30 says of one alert of an evaluate with the rule of its id
ConfidenceByMatch(a, transcript, rule) ==
    /\ a.confidence \in {85, 90, 95}
    /\ a.confidence = 95 <=> rule.requires_metadata
    /\ a.confidence = 90 <=> ~rule.requires_metadata /\ PhrasesIn(transcript, rule) # {}
    /\ a.confidence = 85 <=>
           /\ ~rule.requires_metadata
           /\ PhrasesIn(transcript, rule) = {}
           /\ first_pattern(transcript_to_lowercase(transcript), rule) # 0
    /\ a.confidence = 90 =>
           EvidenceOfPhrase(a, transcript, rule.triggers[MinOf(PhrasesIn(transcript, rule))])

\* C30: an alert of the deterministic evaluator has confidence 95 exactly
\* when its rule is a metadata rule, 90 exactly when a trigger phrase of its
\* rule occurs in the transcript and 85 exactly when none does and a pattern
\* matches; with a trigger phrase in the transcript the evidence is that of
\* the first phrase, in declared order, that occurs, whether or not a
\* pattern matches as well.
C30_ConfidenceByMatch ==
    [][EvaluateInStep =>
          \A i \in DOMAIN ret'.output.alerts :
              ConfidenceByMatch(ret'.output.alerts[i], ret'.transcript,
                                RuleIn(Catalogs[ret'.catalog], ret'.output.alerts[i].rule_id))]_vars

\* an evaluate of "no more calls Don't call me" has returned the DNC-001
\* alert: its eighth trigger phrase is at offset 0, its first at offset 14,
\* and its patterns match as well
C30_Witness ==
    /\ ret.cmd = "evaluate_in"
    /\ ret.catalog = "default"
    /\ ret.transcript = <<"no more calls", "Don't call me">>
    /\ PhrasesIn(ret.transcript, RuleOf("DNC-001")) = {1, 8}
    /\ first_pattern(transcript_to_lowercase(ret.transcript), RuleOf("DNC-001")) # 0
    /\ \E i \in DOMAIN ret.output.alerts :
           /\ ret.output.alerts[i].rule_id = "DNC-001"
           /\ ret.output.alerts[i].confidence = 90
           /\ ret.output.alerts[i].evidence.start_char = 14
           /\ ret.output.alerts[i].evidence.end_char = 27

\* the first n entries of a sequence
FirstN(v, n) == [i \in 1..Min(n, Len(v)) |-> v[i]]

\* the suggestions (confidence 85) with the recommended_fix of the rules
SuggestionsOf(rs) == [i \in DOMAIN rs |-> SuggestedLine(rs[i].recommended_fix, 85)]

\* the rules of the catalog, in its order, that alerted and have a
\* recommended_fix
AlertedWithFix(rs, alerts) ==
    SelectSeq(rs, LAMBDA r : r.id \in RuleIdsOf(alerts) /\ r.recommended_fix # "")

\* the generic suggestions (confidence 80) whose conditions hold on the state
\* the call leaves
GenericSuggestions(md, transcript, st) ==
    (IF md.call_type = "outbound_sales" /\ Len(Text(transcript)) > 100
        /\ ~st.disclosures.seller_identified
     THEN <<SuggestedLine(IdentifySuggestion, 80)>> ELSE <<>>)
    \o (IF md.call_type = "outbound_sales" /\ Len(Text(transcript)) > 100
           /\ ~st.disclosures.sales_purpose_stated
        THEN <<SuggestedLine(PurposeSuggestion, 80)>> ELSE <<>>)

\* none of the suggestions is a generic one
NoGeneric(lines) ==
    \A i \in DOMAIN lines : lines[i].text \notin {IdentifySuggestion, PurposeSuggestion}

\* the suggestions of the evaluate r, which left the state st, are the first
\* 3 of the suggestions of its alerting rules followed by the generic ones
FirstThree(r, st) ==
    r.output.suggested_next_lines =
        FirstN(SuggestionsOf(AlertedWithFix(Catalogs[r.catalog], r.output.alerts))
                   \o GenericSuggestions(r.metadata, r.transcript, st), 3)

\* C31, as stated: the suggestions of an evaluate are the first 3 of the
\* non-empty recommended_fix texts of the rules that alerted, in catalog order,
\* followed by the generic suggestions whose conditions hold; and with three
\* or more alerting rules none of them is generic.
C31_NoGenericAfterThreeAlerts ==
    [][EvaluateInStep =>
          /\ FirstThree(ret', state')
          /\ Len(ret'.output.alerts) >= 3 => NoGeneric(ret'.output.suggested_next_lines)]_vars

\* C31, amended: the suggestions of an evaluate are the first 3 of the
\* non-empty recommended_fix texts of the rules that alerted, in catalog order,
\* followed by the generic suggestions whose conditions hold; and with three
\* or more alerting rules that have a non-empty recommended_fix none of them
\* is generic.
C31_NoGenericAfterThreeFixes ==
    [][EvaluateInStep =>
          /\ FirstThree(ret', state')
          /\ Len(AlertedWithFix(Catalogs[ret'.catalog], ret'.output.alerts)) >= 3 =>
                 NoGeneric(ret'.output.suggested_next_lines)]_vars

\* an evaluate of an outbound sales call of 101 characters has returned three
\* alerts whose rules have a recommended_fix: the seller is not identified,
\* and the three suggestions are those of the rules
C31_Witness ==
    /\ ret.cmd = "evaluate_in"
    /\ ret.metadata.call_type = "outbound_sales"
    /\ Len(Text(ret.transcript)) = 101
    /\ ~state.disclosures.seller_identified
    /\ Len(AlertedWithFix(Catalogs[ret.catalog], ret.output.alerts)) = 3
    /\ Len(ret.output.suggested_next_lines) = 3
    /\ NoGeneric(ret.output.suggested_next_lines)

\* C32: an evaluate whose call_type is not outbound_sales, or whose transcript
\* has 100 characters or fewer, returns neither generic suggestion, whatever
\* the disclosure flags are.
C32_GenericOnlyOnLongSalesCalls ==
    [][EvaluateInStep /\ (\/ ret'.metadata.call_type # "outbound_sales"
                          \/ Len(Text(ret'.transcript)) <= 100) =>
          NoGeneric(ret'.output.suggested_next_lines)]_vars

\* an evaluate of an outbound sales call of exactly 100 characters has
\* returned fewer than 3 suggestions, none generic, with the sales purpose
\* not stated
C32_Witness ==
    /\ ret.cmd = "evaluate_in"
    /\ ret.metadata.call_type = "outbound_sales"
    /\ Len(Text(ret.transcript)) = 100
    /\ ~state.disclosures.sales_purpose_stated
    /\ Len(ret.output.suggested_next_lines) < 3
    /\ NoGeneric(ret.output.suggested_next_lines)

\* C35: TIME-001 never produces an alert and is never in seen_alerts,
\* whatever the call_start_time and the caller_timezone of the metadata, the
\* transcript and the evaluate calls before.
C35_TimeRuleNeverAlerts ==
    /\ ~BagIn("TIME-001", state.seen_alerts)
    /\ ~BagIn("TIME-001", emitted)
    /\ ret.cmd = "evaluate_in" => "TIME-001" \notin RuleIdsOf(ret.output.alerts)

\* an evaluate of a call placed after 9pm, with the TIME-001 rule enabled,
\* has returned the alert of another metadata rule
C35_Witness ==
    /\ ret.cmd = "evaluate_in"
    /\ ret.metadata.call_start_time = "2024-01-15T22:15:00Z"
    /\ IsSome(ret.metadata.caller_timezone)
    /\ RuleIn(Catalogs[ret.catalog], "TIME-001") \in Range(enabled_rules(Catalogs[ret.catalog]))
    /\ "DNC-003" \in RuleIdsOf(ret.output.alerts)

\* the flags of the state that are true, by name
FlagsSet(st) ==
    {f \in {"dnc_requested", "consent_revoked"} : st[f]}
        \cup {f \in DOMAIN st.disclosures : st.disclosures[f]}

\* the step is a reset of the evaluator
EvaluatorResetStep == ret = NoCmd /\ ret'.cmd = "reset"

\* C37: with the default catalog, in every reachable state dnc_requested is
\* true iff DNC-001 is in seen_alerts and consent_revoked is true iff
\* CONS-001 is in seen_alerts, and between two resets the two flags and the
\* disclosure flags only change from false to true.
C37_FlagsFollowAlerts ==
    /\ [](state.dnc_requested <=> contains(state.seen_alerts, "DNC-001"))
    /\ [](state.consent_revoked <=> contains(state.seen_alerts, "CONS-001"))
    /\ [][~EvaluatorResetStep => FlagsSet(state) \subseteq FlagsSet(state')]_vars

\* an evaluate that alerted nothing has returned with the flags of a
\* request, of a revocation and of a disclosure set by the calls before
C37_Witness ==
    /\ ret.cmd = "evaluate"
    /\ ret.output.alerts = <<>>
    /\ {"dnc_requested", "consent_revoked", "seller_identified"} \subseteq FlagsSet(state)
    /\ contains(state.seen_alerts, "DNC-002")

\* the states that differ from st at most in the flags consent_revoked,
\* product_described, callback_provided and recording_disclosed
OtherFlags(st) ==
    {[st EXCEPT !.consent_revoked = c, !.disclosures.product_described = p,
                !.disclosures.callback_provided = b,
                !.disclosures.recording_disclosed = r] : c, p, b, r \in BOOLEAN}

\* C40: two states that differ only in the flags consent_revoked,
\* product_described, callback_provided and recording_disclosed give the
\* same alerts and suggestions for the same metadata and transcript, and
\* after the evaluate differ at most in these four flags.
C40_OutputIgnoresFourFlags ==
    [][EvaluateStep =>
          \A v \in OtherFlags(state) :
              \E r \in {evaluate(v, ret'.metadata, ret'.transcript, rules)} :
                  /\ r.output = ret'.output
                  /\ r.state \in OtherFlags(state')]_vars

\* an evaluate of a long sales call has returned the alert of a revocation
\* and the generic suggestion of the sales purpose
C40_Witness ==
    /\ ret.cmd = "evaluate"
    /\ "CONS-001" \in RuleIdsOf(ret.output.alerts)
    /\ state.consent_revoked
    /\ \E i \in DOMAIN ret.output.suggested_next_lines :
           ret.output.suggested_next_lines[i].text = PurposeSuggestion

(***************************************************************************)
(* Properties of the commands.                                             *)
(***************************************************************************)
\* an evaluate_transcript command has just returned
Served == ret.cmd = "evaluate_transcript"

\* the step is an evaluate_transcript command
ServeStep == ret = NoCmd /\ ret'.cmd = "evaluate_transcript"

\* the answers of a provider that make LlmClient::evaluate fail
FailedReplies == {"send_error", "timeout", "bad_status", "bad_body", "bad_json"}

\* C2: in one conversation, over evaluate_transcript calls on a growing
\* transcript, with any use_llm and either evaluator serving a call, the
\* alerts returned hold no rule id twice.
C2_NoRuleIdTwiceAcrossEngines ==
    BagCardinality(emitted) = Cardinality(BagToSet(emitted))

\* C4: evaluate_transcript returns Ok whatever the provider does; when the
\* provider gives no answer, times out, answers with a status that is no
\* success or with a malformed body, or no request is sent, the alerts are
\* those of the deterministic evaluator run on the state before the call.
C4_FallbackNeverFails ==
    [][ServeStep =>
          /\ ret'.ok
          /\ ret'.reply.kind \in FailedReplies \cup {"none"} =>
                ret'.output.alerts
                    = evaluate(state, ret'.metadata, ret'.transcript, rules).output.alerts]_vars

\* C4's case: the request to the provider timed out and the call returned Ok
\* with an alert of the deterministic evaluator.
C4_Witness ==
    /\ Served
    /\ ret.use_llm /\ ret.reply.kind = "timeout"
    /\ ret.ok
    /\ "DNC-001" \in RuleIdsOf(ret.output.alerts)

\* C5: llm_used of a result is true exactly if the LlmClient produced the
\* alerts of the result, and false when its call failed and the deterministic
\* evaluator produced them.
C5_LlmUsedReportsPath ==
    Served => (ret.llm_used <=> ret.path = "llm")

\* C6: when the call of the LlmClient fails in evaluate_transcript with
\* use_llm, the alerts, the suggestions and the ConversationState left are
\* those of the deterministic evaluate from the same state on the same
\* metadata and transcript.
C6_FallbackIsRulesOnly ==
    [][(ServeStep /\ ret'.use_llm /\ ret'.reply.kind \in FailedReplies) =>
          /\ ret'.output = evaluate(state, ret'.metadata, ret'.transcript, rules).output
          /\ state' = evaluate(state, ret'.metadata, ret'.transcript, rules).state]_vars

\* C6's case: on a state that has alerted before, the provider's answer was no
\* LlmResponse, and the call returned an alert and three suggestions.
C6_Witness ==
    /\ Served
    /\ ret.use_llm /\ ret.reply.kind = "bad_json"
    /\ Len(ret.output.alerts) >= 1
    /\ Len(ret.output.suggested_next_lines) = 3
    /\ BagCardinality(emitted) > Len(ret.output.alerts)

\* C7: every result of evaluate_transcript, from either evaluator and for
\* any answer of the provider, has at most 3 suggested_next_lines.
C7_AtMostThreeSuggestions ==
    Served => Len(ret.output.suggested_next_lines) <= 3

\* the step is a check_llm_status or set_llm_model command whose
\* check_connection ended in an error
FailedProbeStep ==
    /\ ret = NoCmd
    /\ ret'.cmd \in {"check_llm_status", "set_llm_model"}
    /\ ~ret'.available

\* C22: after a check_connection that ended in a network failure or a status
\* that is no success, the LlmClient is not enabled, so that
\* LlmClient::evaluate returns its error before it sends a request, also when
\* the client was enabled before.
C22_FailedProbeDisables ==
    [][FailedProbeStep =>
          /\ ~llm'.enabled
          /\ \A reply \in GenerateReplies : ~LlmClient_evaluate(llm', reply).ok]_vars

\* a check_llm_status or set_llm_model command has returned
Probed == ret.cmd \in {"check_llm_status", "set_llm_model"}

\* the provider answered the probe with a model list that names the model
Listed(r) == r.tags.kind = "models" /\ r.model \in r.tags.models

\* the provider answered the probe with a model list and answers a request
\* to pull the model with success
Pulled(r) == r.tags.kind = "models" /\ r.tags.pull = "ok"

\* the hosted evaluator has just failed inside evaluate_transcript
HostedFailed == Served /\ ret.reply.kind \in FailedReplies

\* the step is the frontend taking a response
RespondStep == ret # NoCmd /\ ret' = NoCmd

\* C39: a failure of the hosted evaluator inside evaluate_transcript changes
\* neither llm_enabled nor the enabled flag and the model of the LlmClient;
\* they are as they were when the request was sent, nothing but a probe or
\* a change of model changes them, and with them the next
\* evaluate_transcript with use_llm sends a generation request again.
C39_FailureKeepsHostedPath ==
    /\ [][ServeStep /\ ret'.reply.kind \in FailedReplies =>
              llm' = llm /\ llm_enabled' = llm_enabled]_vars
    /\ [](HostedFailed => llm_enabled /\ llm.enabled)
    /\ [][ServeStep \/ RespondStep => llm' = llm /\ llm_enabled' = llm_enabled]_vars
    /\ [][ServeStep /\ ret'.use_llm /\ llm_enabled /\ llm.enabled =>
              IsSome(ret'.request) /\ ret'.request.some.model = llm.model]_vars

\* a generation request has failed in a call that had alerted before: the
\* fallback ran, and both flags are still true
C39_Witness ==
    /\ HostedFailed
    /\ ret.path = "rules"
    /\ llm_enabled /\ llm.enabled
    /\ emitted # EmptyBag
    /\ ret.output.alerts = <<>>

\* the generation request of the command that has returned, if it sent one
RequestSent == ret.cmd = "evaluate_transcript" /\ IsSome(ret.request)

\* the fields of the body other than options are as the provider expects
BodyFields(body) ==
    /\ {"model", "prompt", "system", "stream", "format", "options"} \subseteq DOMAIN body
    /\ body.model = llm.model
    /\ body.stream = FALSE
    /\ body.format = "json"

\* C36 as stated: every generation request has the fields model, prompt,
\* system, stream = false, format = "json" and options, whose fields are
\* temperature 0.1, top_p 0.9 and max_tokens 2048.
C36_RequestBody ==
    RequestSent =>
        /\ BodyFields(ret.request.some)
        /\ ret.request.some.options =
               [temperature |-> "0.1", top_p |-> "0.9", max_tokens |-> 2048]

\* C36: every generation request has the fields model, prompt, system,
\* stream = false, format = "json" and options, whose fields are
\* temperature 0.1, top_p 0.9 and num_predict 2048.
C36_RequestBodyNumPredict ==
    RequestSent =>
        /\ BodyFields(ret.request.some)
        /\ ret.request.some.options =
               [temperature |-> "0.1", top_p |-> "0.9", num_predict |-> 2048]

\* a generation request was sent for a model set by set_llm_model, and the
\* provider answered it
C36_Witness ==
    /\ RequestSent
    /\ ret.request.some.model = "mistral"
    /\ ret.request.some.prompt[4] # <<>>
    /\ ret.reply.kind = "ok"

\* C33: check_connection reports the LlmClient available only if its model
\* is in the model list the provider answered with or a request to pull it
\* succeeded; when the list does not name the model, the result is the
\* success of the request to pull it.
C33_AvailableIffListedOrPulled ==
    Probed =>
        /\ ret.available => Listed(ret) \/ Pulled(ret)
        /\ ret.tags.kind = "models" /\ ~Listed(ret) => ret.available = Pulled(ret)

\* C25: every alert of every result of evaluate_transcript, from either
\* evaluator and for any response text that parses to an LlmResponse, has a
\* confidence from 0 to 100.
C25_ConfidenceInRange ==
    Served =>
        \A i \in DOMAIN ret.output.alerts :
            /\ 0 <= ret.output.alerts[i].confidence
            /\ ret.output.alerts[i].confidence <= 100

(***************************************************************************)
(* Properties of the call sessions.                                        *)
(***************************************************************************)
\* the step is a reset_evaluator command
ResetStep == ret = NoCmd /\ ret'.cmd = "reset_evaluator"

\* the texts of a list of suggestions
TextsOf(lines) == [i \in DOMAIN lines |-> lines[i].text]

\* a deterministic evaluate on the state returns the alert rule ids and the
\* suggestions it returns on a ConversationState never used
AsNeverUsed(st, md, transcript) ==
    /\ IdsOf(evaluate(st, md, transcript, rules).output.alerts)
          = IdsOf(evaluate(ConversationState_default, md, transcript, rules).output.alerts)
    /\ evaluate(st, md, transcript, rules).output.suggested_next_lines
          = evaluate(ConversationState_default, md, transcript, rules).output.suggested_next_lines

\* C12: whatever happened before reset_evaluator, a deterministic evaluate on
\* the state it leaves returns, for any metadata and transcript, the alert rule
\* ids and the suggestions of the same call on a ConversationState never used.
C12_ResetRestores ==
    [][ResetStep =>
          \A md \in CallMetadata, transcript \in TranscriptsOf(SessionUtterances) :
              AsNeverUsed(state', md, transcript)]_vars

\* C12's case: DNC-001 was returned to a call by the deterministic evaluator,
\* the evaluator was reset, and the next deterministic evaluate returned
\* DNC-001 to the call again.
C12_Witness ==
    /\ Served
    /\ ret.path = "rules" /\ ~ret.use_llm
    /\ "DNC-001" \in RuleIdsOf(ret.output.alerts)
    /\ CopiesIn("DNC-001", heard[ret.metadata.call_id]) = 2
    /\ emitted = RuleIdBag(ret.output.alerts)
    /\ ~llm.enabled /\ llm.model = "llama3.2:1b"
    /\ \A id \in CallIds : db[id] = "none"

\* the step is a command that is no deterministic evaluation and no reset
NoEvaluatorStep ==
    /\ ret = NoCmd
    /\ \/ ret'.cmd \in {"check_llm_status", "set_llm_model", "end_call_session"}
       \/ ret'.cmd = "evaluate_transcript" /\ ret'.path = "llm"

\* the step is a deterministic evaluation or a reset
EvaluatorStep ==
    /\ ret = NoCmd
    /\ \/ ret'.cmd = "evaluate_transcript" /\ ret'.path = "rules"
       \/ ret'.cmd = "reset_evaluator"
       \/ ret'.cmd = "start_call_session" /\ ret'.ok

\* C14: an evaluate_transcript served by the LlmClient, check_llm_status,
\* set_llm_model and end_call_session leave the ConversationState as it is,
\* flags and seen_alerts; the state changes only in steps that run the
\* deterministic evaluator or reset.
C14_StateFrame ==
    [][/\ NoEvaluatorStep => state' = state
       /\ state' # state => EvaluatorStep]_vars

\* C14's case: after the deterministic evaluator had returned DNC-001, the
\* LlmClient served a call with an alert of DNC-001; the state holds DNC-001
\* once.
C14_Witness ==
    /\ Served
    /\ ret.path = "llm"
    /\ "DNC-001" \in RuleIdsOf(ret.output.alerts)
    /\ state.dnc_requested
    /\ CopiesIn("DNC-001", state.seen_alerts) = 1
    /\ CopiesIn("DNC-001", emitted) = 2

\* C18: after start_call_session has returned, with Ok or with the error of
\* recording the session, the ConversationState is as reset leaves it: every
\* flag false and seen_alerts empty.
C18_StartSessionResets ==
    ret.cmd = "start_call_session" => state = ConversationState_default

\* C19: after end_call_session has returned Ok, the ConversationState is as
\* reset leaves it: every flag false and seen_alerts empty.
C19_EndSessionClears ==
    (ret.cmd = "end_call_session" /\ ret.ok) => state = ConversationState_default

\* the sessions of all the call ids are open
AllOpen == \A id \in CallIds : db[id] = "open"

\* C20: while the sessions of two call ids are open, the calls of one do not
\* change what the other is returned: each call has been returned each rule id
\* at most once since its session started, and a call whose transcript has a
\* trigger phrase of DNC-001 has been returned DNC-001, now or before.
C20_SessionsIsolated ==
    AllOpen =>
        \A id \in CallIds :
            /\ \A rule_id \in BagToSet(heard[id]) : CopiesIn(rule_id, heard[id]) = 1
            /\ ( /\ Served /\ ret.metadata.call_id = id
                 /\ has_trigger("DNC-001", ret.transcript) )
               => BagIn("DNC-001", heard[id])

(***************************************************************************)
(* Properties of the calls in progress at once.                            *)
(***************************************************************************)
\* C15: evaluate and reset of the one ConversationState take effect one at a
\* time.  A task holds the Mutex from before the rule loop until its output is
\* built; an evaluate returns the output that evaluate run alone returns on the
\* state the task found when it took the Mutex, and leaves the state such a run
\* leaves; a reset leaves the default state.  The calls hence act as in the
\* sequential order in which they took the Mutex.
C15_Serialized ==
    \A t \in Tasks :
        /\ tasks[t].pc \in {"rules", "assign"} => locks.state_mutex = t
        /\ (tasks[t].pc = "returned" /\ tasks[t].op = "evaluate") =>
              /\ tasks[t].output
                    = evaluate(tasks[t].state0, tasks[t].metadata,
                               tasks[t].transcript, rules).output
              /\ tasks[t].state1
                    = evaluate(tasks[t].state0, tasks[t].metadata,
                               tasks[t].transcript, rules).state
        /\ (tasks[t].pc = "returned" /\ tasks[t].op = "reset") =>
              tasks[t].state1 = ConversationState_default

\* C15's case: one task is in the rule loop, past DNC-001, with an alert in
\* hand, while another that called reset waits for the Mutex.
C15_Witness ==
    \E t, u \in Tasks :
        /\ tasks[t].pc = "rules" /\ tasks[t].k > 2 /\ tasks[t].alerts # <<>>
        /\ tasks[u].pc = "lock" /\ tasks[u].op = "reset"

\* the task has a generation request with the provider
InFlight(t) == tasks[t].pc = "await"

\* C16: while an evaluate_transcript has a generation request with the
\* provider, no step changes the model or enabled of the LlmClient, or
\* llm_enabled; the task with the request holds the RwLock for reading, and a
\* task in check_llm_status or set_llm_model holds it for writing from
\* state.llm.write() until it returns.
C16_LlmLock ==
    [][/\ (\E t \in Tasks : InFlight(t)) => (llm' = llm /\ llm_enabled' = llm_enabled)
       /\ \A t \in Tasks :
             /\ tasks'[t].pc = "await" => t \in locks'.llm_readers
             /\ tasks'[t].pc \in {"set_model", "check", "enable", "status"}
                   => locks'.llm_writer = t]_vars

\* C16's case: two tasks hold the RwLock for reading at the same time, each
\* with a request with the provider, and the lock cannot be taken for writing.
C16_Witness ==
    \E t, u \in Tasks :
        /\ t # u
        /\ InFlight(t) /\ InFlight(u)
        /\ {t, u} \subseteq locks.llm_readers
        /\ ~can_write(locks)

\* the alerts are all of the deterministic evaluator
Deterministic(alerts) == \A i \in DOMAIN alerts : alerts[i].confidence \in {85, 90, 95}

\* the output is the conversion of an answer of the provider
Hosted(output) ==
    \E reply \in {r \in TaskReplies : r.kind = "ok"} :
        /\ output.alerts = to_alerts(reply.response.alerts)
        /\ output.suggested_next_lines = to_suggested_lines(reply.response.suggested_next_lines)

\* C17: a call of evaluate_transcript sends at most one generation request and
\* calls the ComplianceEvaluator at most once; what it returns is the
\* conversion of the answer to its one request, with no call of the
\* ComplianceEvaluator, or the output of its one call of the
\* ComplianceEvaluator.
C17_OneAttemptEach ==
    \A t \in Tasks :
        (tasks[t] # Idle /\ tasks[t].op = "evaluate_transcript") =>
            /\ tasks[t].requests <= 1
            /\ tasks[t].evaluations <= 1
            /\ tasks[t].pc = "returned" =>
                  \/ /\ tasks[t].path = "llm"
                     /\ tasks[t].requests = 1 /\ tasks[t].evaluations = 0
                     /\ Hosted(tasks[t].output)
                  \/ /\ tasks[t].path = "rules"
                     /\ tasks[t].evaluations = 1
                     /\ Deterministic(tasks[t].output.alerts)

\* C17's case: the one request of a call failed, and the call returned the
\* alerts of its one call of the ComplianceEvaluator.
C17_Witness ==
    \E t \in Tasks :
        /\ tasks[t].pc = "returned" /\ tasks[t].op = "evaluate_transcript"
        /\ tasks[t].requests = 1 /\ tasks[t].evaluations = 1
        /\ tasks[t].path = "rules"
        /\ "DNC-001" \in RuleIdsOf(tasks[t].output.alerts)

\* every flag of the state is false and seen_alerts is empty
Cleared(st) ==
    /\ ~st.dnc_requested
    /\ ~st.consent_revoked
    /\ \A f \in DOMAIN st.disclosures : ~st.disclosures[f]
    /\ st.seen_alerts = EmptyBag

\* task t has returned from reset
HasReset(t) == tasks[t].pc = "returned" /\ tasks[t].op = "reset"

\* C26: whatever state reset finds when it takes the Mutex, it leaves every
\* flag false and seen_alerts empty; and a reset that finds the state so
\* leaves it as it found it, as would one more reset of the state it leaves.
C26_ResetIdempotent ==
    \A t \in Tasks :
        HasReset(t) =>
            /\ Cleared(tasks[t].state1)
            /\ Cleared(tasks[t].state0) => tasks[t].state1 = tasks[t].state0
            /\ reset(tasks[t].state1) = tasks[t].state1

\* C26's case: a reset found flags set and ids in seen_alerts, and the next
\* reset found the state the first had left.
C26_Witness ==
    \E t, u \in Tasks :
        /\ HasReset(t) /\ HasReset(u)
        /\ tasks[t].state0.dnc_requested
        /\ tasks[t].state0.seen_alerts # EmptyBag
        /\ tasks[u].state0 = tasks[t].state1

\* the step sends the generation request of task t: POST /api/generate with
\* "model": self.model
Sends(t) == tasks[t].pc = "llm_evaluate" /\ tasks'[t].pc = "await"

\* the step is the set_model of task t
SetsModel(t) == tasks[t].pc = "set_model" /\ tasks'[t].pc = "check"

\* C23: set_model makes the model given the model of the LlmClient and leaves
\* the client not enabled; and a generation request is sent only when a
\* check_connection has returned Ok(true) since the last set_model, and names
\* the model that check was made for, under every interleaving of the
\* commands.
C23_SetModelDisables ==
    [][\A t \in Tasks :
          /\ SetsModel(t) => llm'.model = tasks[t].model /\ ~llm'.enabled
          /\ Sends(t) => probed.model # "none" /\ llm.model = probed.model]_vars

\* C23's case: a call that found llm_enabled true waited for a set_llm_model
\* whose check_connection failed, and then went on to the deterministic
\* evaluator without a request.
C23_Witness ==
    \E t \in Tasks :
        /\ tasks[t].pc = "fallback"
        /\ tasks[t].should_use_llm
        /\ tasks[t].requests = 0
        /\ llm.model = "mistral"
        /\ probed.model = "none"

\* C27: a generation request is sent only when the last check_connection
\* that returned had returned Ok(true): none before the first
\* check_connection and none after one that failed, under every interleaving
\* of evaluate_transcript with check_llm_status and set_llm_model.
C27_RequestsOnlyAfterSuccess ==
    [][\A t \in Tasks : Sends(t) => probed.ok]_vars

\* the step is the availability check of LlmClient::evaluate in task t
AvailabilityCheck(t) == tasks[t].pc = "llm_evaluate" /\ tasks'[t].pc # "llm_evaluate"

\* C38: whenever no check_llm_status or set_llm_model holds the write lock of
\* the LlmClient, llm_enabled implies the enabled flag of the LlmClient; so
\* the availability check of LlmClient::evaluate, reached with llm_enabled
\* true, sends the request.
C38_EnabledImpliesClientEnabled ==
    /\ [](locks.llm_writer = 0 /\ llm_enabled => llm.enabled)
    /\ [][\A t \in Tasks :
              AvailabilityCheck(t) /\ llm_enabled => tasks'[t].pc = "await"]_vars

\* a task has sent its request for the model set by set_llm_model, while
\* the other waits for the write lock
C38_Witness ==
    \E t, u \in Tasks :
        /\ tasks[t].pc = "await"
        /\ tasks[u].pc = "write_lock"
        /\ llm_enabled
        /\ llm.model = "mistral"
        /\ locks.llm_writer = 0

\* the task is in a command that has not ended
InCommand(t) == tasks[t].pc \notin {"idle", "returned", "panicked"}

\* the task waits for a lock that another task holds
Blocked(t) ==
    \/ tasks[t].pc = "read_lock" /\ ~can_read(locks)
    \/ tasks[t].pc = "write_lock" /\ ~can_write(locks)
    \/ tasks[t].pc \in {"fallback", "rules", "reset", "evaluator_reset"} /\ ~can_lock(locks)
    \/ tasks[t].pc \in {"start_db", "end_db"} /\ ~can_lock_db(locks)

\* every task that is in a command waits for a lock
Deadlock == (\E t \in Tasks : InCommand(t)) /\ \A t \in Tasks : InCommand(t) => Blocked(t)

\* C34: no interleaving of evaluate_transcript, check_llm_status,
\* set_llm_model, start_call_session, end_call_session and reset_evaluator
\* reaches a state where every command waits for a lock, and every
\* evaluate_transcript that was called returns, given that every command
\* that can go on does and that the provider answers every request or the
\* request times out.
C34_EvaluateReturns ==
    /\ []~Deadlock
    /\ \A t \in Tasks : (tasks[t].pc = "start") ~> (tasks[t].pc = "returned")

=============================================================================
